---- MODULE Spec2Model ----
(***************************************************************************)
(* LanDrop chunked transfer protocol (p2p/chunked_transfer.go).            *)
(*                                                                         *)
(* One sender (SendFileChunked) and one receiver (ReceiveFileChunked)      *)
(* share a QUIC connection: a control stream carrying one request and one  *)
(* response, then one data stream per chunk attempt.  The receiver's       *)
(* output file stays on disk between sessions.                             *)
(***************************************************************************)
EXTENDS Integers, Sequences, FiniteSets, TLC

(* ----------------------------- bounds ---------------------------------- *)
MaxFileSize == 3
MaxChunkSize == 2
MaxFaults == 2
MaxSessions == 2
MaxPlanFileSize == 7
MaxPlanChunkSize == 3
(* Longest payload, string and list handed to the codecs on their own. *)
MaxCodecLen == 2
(* Most cuts of a control message into read segments. *)
MaxCuts == 2
(* Most characters on standard input when the prompt reads its line. *)
MaxAnswerLen == 4
(* Largest buffer size of a pool (1024 and 32768 in the program) and most *)
(* Get calls on it.                                                      *)
MaxBufferSize == 3
MaxGets == 4
(* Longest message handed to SendQUICMessage. *)
MaxMessageLen == 2
(* Goroutines that call the trust store, and calls they make in all. *)
MaxGoroutines == 2
MaxCalls == 3
(* Bits of one byte of a header field (8 in the program, scaled down). *)
ByteBits == 2

(* ------------------------ program constants ---------------------------- *)
MaxRetries == 3
(* Bytes of the index field and of the length field of the chunk header. *)
HeaderFieldBytes == 4

(* The byte a hole left by a positional write reads as; no source byte has  *)
(* this value, so it also stands for any byte that is not the source's.    *)
ZeroByte == 0

Min(a, b) == IF a < b THEN a ELSE b
Max(a, b) == IF a > b THEN a ELSE b

(* The source file of length n: the byte at position p has value p, so    *)
(* every byte of the file is distinct and a misplaced or altered byte is   *)
(* visible.                                                                *)
SourceOfSize(n) == [p \in 1..n |-> p]

(* Files of length k a receiver may already hold for a source src: every   *)
(* byte either equals the source's byte at that position or differs.       *)
FilesOfSize(k, src) ==
    {d \in [1..k -> 0..Len(src)] :
        \A p \in 1..k : d[p] = ZeroByte \/ (p <= Len(src) /\ d[p] = src[p])}

(* sha256.Sum256 / sha256.New + hex.EncodeToString: an ideal (collision     *)
(* free) digest of a byte sequence.                                        *)
Digest(data) == <<"sha256", Len(data), data>>

(* ----------------------------- planner --------------------------------- *)

(* Variant: one chunk more than the file has when the size is a multiple   *)
(* of the chunk size.                                                      *)
TotalChunksPlusOne(fileSize, chunkSize) == (fileSize \div chunkSize) + 1

(* totalChunks := (fileSize + chunkSize - 1) / chunkSize *)
TotalChunks(fileSize, chunkSize) == (fileSize + chunkSize - 1) \div chunkSize

(* Variant: a partly written chunk counts as present. *)
ExistingChunksRoundUp(existingSize, chunkSize) ==
    (existingSize + chunkSize - 1) \div chunkSize

(* existingChunks := existingSize / chunkSize *)
ExistingChunks(existingSize, chunkSize) == existingSize \div chunkSize

(* The loop of getRequiredChunks over i = from .. totalChunks-1, appending  *)
(* i when the file is absent or i >= existingChunks.                       *)
RECURSIVE RequiredLoop(_, _, _, _)
RequiredLoop(i, totalChunks, exists, existingChunks) ==
    IF i >= totalChunks THEN <<>>
    ELSE IF (~exists) \/ i >= existingChunks
         THEN <<i>> \o RequiredLoop(i + 1, totalChunks, exists, existingChunks)
         ELSE RequiredLoop(i + 1, totalChunks, exists, existingChunks)

getRequiredChunks(exists, existingSize, fileSize, chunkSize) ==
    RequiredLoop(0, TotalChunks(fileSize, chunkSize), exists,
                 ExistingChunks(existingSize, chunkSize))

(* Sender's per-chunk range: offset := chunkIndex * chunkSize;             *)
(* remaining := size - offset, capped at chunkSize.                        *)
ChunkOffset(chunkIndex, chunkSize) == chunkIndex * chunkSize
(* Variant: the length is not capped at the chunk size. *)
ChunkRemainingUncapped(chunkIndex, chunkSize, fileSize) ==
    fileSize - ChunkOffset(chunkIndex, chunkSize)

ChunkRemaining(chunkIndex, chunkSize, fileSize) ==
    LET remaining == fileSize - ChunkOffset(chunkIndex, chunkSize)
    IN  IF remaining > chunkSize THEN chunkSize ELSE remaining

(* The sender's chunk loop over a resume list, from list position k on:    *)
(* the (offset, length) of every chunk it sends; an entry with             *)
(* remaining <= 0 is skipped.                                              *)
RECURSIVE SendRanges(_, _, _, _)
SendRanges(k, resumeChunks, chunkSz, fileSize) ==
    IF k > Len(resumeChunks) THEN <<>>
    ELSE LET offset    == ChunkOffset(resumeChunks[k], chunkSz)
             remaining == ChunkRemaining(resumeChunks[k], chunkSz, fileSize)
         IN  IF remaining <= 0
             THEN SendRanges(k + 1, resumeChunks, chunkSz, fileSize)
             ELSE <<[offset |-> offset, length |-> remaining]>>
                  \o SendRanges(k + 1, resumeChunks, chunkSz, fileSize)

(* ------------------------------ files ---------------------------------- *)

(* Variant: the read starts where the file begins, not at the offset. *)
ReadChunkWithoutSeek(file, offset, size) == SubSeq(file, 1, size)

(* file.Seek(offset) + io.ReadFull(file, chunkData[:size]) *)
ReadChunk(file, offset, size) == SubSeq(file, offset + 1, offset + size)

(* os.File.WriteAt: positional write; a gap past the old end reads as 0.   *)
WriteAt(file, data, offset) ==
    IF Len(data) = 0 THEN file
    ELSE [p \in 1..Max(Len(file), offset + Len(data)) |->
            IF p > offset /\ p <= offset + Len(data) THEN data[p - offset]
            ELSE IF p <= Len(file) THEN file[p]
            ELSE ZeroByte]

(* A failed os.File.WriteAt returns n < len(data) with the error: the first *)
(* n bytes of data may be in the file.                                     *)
FailedWriteAt(file, data, offset) ==
    {WriteAt(file, SubSeq(data, 1, n), offset) : n \in 0..Max(Len(data) - 1, 0)}

(* Variant: only the length of the file is compared. *)
verifyLengthOnly(file, expectedHash) == Len(file) = expectedHash[2]

(* verifyFileIntegrity: re-hash the output file, compare hex digests.      *)
verifyFileIntegrity(file, expectedHash) == Digest(file) = expectedHash

(* --------------------------- wire formats ------------------------------ *)

(* A Go string is a sequence of units: a piece of valid UTF-8 text, or a   *)
(* byte that is not valid UTF-8 (a file name on disk may hold one).        *)
InvalidByte == "0xFF"
ReplacementRune == "U+FFFD"
Text(t) == <<t>>

MessageTransferRequest == "TRANSFER_REQUEST"
MessageTransferResponse == "TRANSFER_RESPONSE"

NewTransferRequest(filename, fileSize, fileHash, chunkSz) ==
    [type |-> MessageTransferRequest, filename |-> filename, filesize |-> fileSize,
     filehash |-> fileHash, chunk_size |-> chunkSz]

NewTransferResponse(isAccepted, resumeChunks, rejectionMsg) ==
    [type |-> MessageTransferResponse, accepted |-> isAccepted,
     resume_chunks |-> resumeChunks, rejection_msg |-> rejectionMsg]

(* json.Marshal of a string: invalid UTF-8 is replaced by U+FFFD. *)
ToValidUTF8(s) ==
    [k \in 1..Len(s) |-> IF s[k] = InvalidByte THEN ReplacementRune ELSE s[k]]

(* Keys of the JSON object of a response: resume_chunks and rejection_msg  *)
(* carry the tag omitempty and are left out when empty.                    *)
ResponseKeys(msg) ==
    {"type", "accepted"}
        \cup (IF Len(msg.resume_chunks) > 0 THEN {"resume_chunks"} ELSE {})
        \cup (IF Len(msg.rejection_msg) > 0 THEN {"rejection_msg"} ELSE {})

(* SerializeMessage: json.Marshal(msg); the JSON object as a function from *)
(* its keys to their values.  The digest is a hex string and stays as is.  *)
SerializeMessage(msg) ==
    IF msg.type = MessageTransferRequest
    THEN [type |-> msg.type, filename |-> ToValidUTF8(msg.filename),
          filesize |-> msg.filesize, filehash |-> msg.filehash,
          chunk_size |-> msg.chunk_size]
    ELSE [k \in ResponseKeys(msg) |->
            CASE k = "type" -> msg.type
              [] k = "accepted" -> msg.accepted
              [] k = "resume_chunks" -> msg.resume_chunks
              [] k = "rejection_msg" -> ToValidUTF8(msg.rejection_msg)]

(* json.Unmarshal leaves a field without its key at the zero value. *)
Field(doc, key, zero) == IF key \in DOMAIN doc THEN doc[key] ELSE zero
DecodeError == [type |-> "error"]

(* Variant: the discriminator is not compared. *)
DeserializeTransferRequestAnyType(doc) ==
    [type |-> Field(doc, "type", ""), filename |-> Field(doc, "filename", <<>>),
     filesize |-> Field(doc, "filesize", 0),
     filehash |-> Field(doc, "filehash", <<>>),
     chunk_size |-> Field(doc, "chunk_size", 0)]

DeserializeTransferRequest(doc) ==
    IF Field(doc, "type", "") # MessageTransferRequest THEN DecodeError
    ELSE [type |-> doc.type, filename |-> Field(doc, "filename", <<>>),
          filesize |-> Field(doc, "filesize", 0),
          filehash |-> Field(doc, "filehash", <<>>),
          chunk_size |-> Field(doc, "chunk_size", 0)]

DeserializeTransferResponse(doc) ==
    IF Field(doc, "type", "") # MessageTransferResponse THEN DecodeError
    ELSE [type |-> doc.type, accepted |-> Field(doc, "accepted", FALSE),
          resume_chunks |-> Field(doc, "resume_chunks", <<>>),
          rejection_msg |-> Field(doc, "rejection_msg", <<>>)]

(* The text json.Marshal writes for an object: an opening brace, one       *)
(* member per key in the order the struct declares its fields, a closing   *)
(* brace.  Each is one token of the text here; a read segment ends between *)
(* two tokens.                                                             *)
JSONKeyOrder ==
    <<"type", "filename", "filesize", "filehash", "chunk_size", "accepted",
      "resume_chunks", "rejection_msg">>
OpenBrace == <<"{">>
CloseBrace == <<"}">>

JSONText(doc) ==
    LET present == SelectSeq(JSONKeyOrder, LAMBDA k : k \in DOMAIN doc)
    IN  <<OpenBrace>>
            \o [i \in 1..Len(present) |-> <<present[i], doc[present[i]]>>]
            \o <<CloseBrace>>

(* json.Unmarshal of a byte buffer: an object only when the text runs from *)
(* the opening brace to the closing brace; anything shorter is "unexpected *)
(* end of JSON input" and leaves the message at its zero value.            *)
NoDocument == <<>>
JSONParse(text) ==
    IF /\ Len(text) >= 2
       /\ text[1] = OpenBrace
       /\ text[Len(text)] = CloseBrace
       /\ \A i \in 2..(Len(text) - 1) : Len(text[i]) = 2
    THEN [k \in {text[i][1] : i \in 2..(Len(text) - 1)} |->
            LET i == CHOOSE j \in 2..(Len(text) - 1) : text[j][1] = k
            IN  text[i][2]]
    ELSE NoDocument

(* DeserializeTransferRequest / DeserializeTransferResponse on the bytes   *)
(* read so far.                                                            *)
DeserializeBuffer(kind, buffer) ==
    IF kind = MessageTransferRequest
    THEN DeserializeTransferRequest(JSONParse(buffer))
    ELSE DeserializeTransferResponse(JSONParse(buffer))

(* Variant: no parse is tried while segments arrive. *)
NeverParsedEarly(buffer, kind) == FALSE

(* if _, err := Deserialize...(buffer); err == nil { break } *)
ParsesAfterSegment(buffer, kind) == DeserializeBuffer(kind, buffer) # DecodeError

(* The read loop on the control stream.  reads is what the successive      *)
(* controlStream.Read calls return: data with err "none", or an error      *)
(* ("EOF" when the peer ended the stream, "closed" otherwise), whose data  *)
(* is not appended.  The result is the error the session fails with        *)
(* ("blocked": the loop waits for a further read), the decoded message and *)
(* the number of reads made.                                               *)
RECURSIVE ControlRead(_, _, _, _)
ControlRead(reads, k, buffer, kind) ==
    IF k > Len(reads)
    THEN [err |-> "blocked", msg |-> DecodeError, used |-> k - 1]
    ELSE IF reads[k].err = "EOF"
    THEN LET m == DeserializeBuffer(kind, buffer)
         IN  [err |-> IF m = DecodeError THEN "deserialize" ELSE "none",
              msg |-> m, used |-> k]
    ELSE IF reads[k].err # "none"
    THEN [err |-> "read", msg |-> DecodeError, used |-> k]
    ELSE LET appended == buffer \o reads[k].data
         IN  IF ParsesAfterSegment(appended, kind)
             THEN [err |-> "none", msg |-> DeserializeBuffer(kind, appended),
                   used |-> k]
             ELSE ControlRead(reads, k + 1, appended, kind)

(* Chunk header written by sendChunkReliably: 4-byte big-endian index,     *)
(* 4-byte big-endian length, 32-byte digest.                               *)
(* binary.BigEndian.PutUint32(header[..], uint32(v)): v modulo the field   *)
(* width (HeaderFieldBytes bytes of ByteBits bits each).                   *)
UInt32(v) == v % (2 ^ (HeaderFieldBytes * ByteBits))
EncodeHeader(chunkIndex, data) ==
    [idx |-> UInt32(chunkIndex), size |-> UInt32(Len(data)),
     sum |-> Digest(data)]

(* The bytes sendChunkReliably writes on the stream for (chunkIndex, data). *)
ChunkFrame(chunkIndex, data) ==
    [idx |-> EncodeHeader(chunkIndex, data).idx,
     size |-> EncodeHeader(chunkIndex, data).size,
     sum |-> EncodeHeader(chunkIndex, data).sum, data |-> data]

NoRequest == NewTransferRequest(<<>>, 0, Digest(<<>>), 1)
FileName == Text("f")

(* promptForTransferConfirmation: the user's trimmed, lower-cased answer.  *)
ReadError == "read error"
Answers == {"yes", "no", "maybe", ReadError}
promptForTransferConfirmation(answer) ==
    IF answer = ReadError THEN <<FALSE, Text("Error reading user response")>>
    ELSE IF answer \in {"yes", "y"} THEN <<TRUE, <<>>>>
    ELSE IF answer \in {"no", "n"} THEN <<FALSE, Text("User rejected the transfer")>>
    ELSE <<FALSE, Text("User provided invalid response")>>

(* The prompt as a function of the process environment and of the          *)
(* characters on standard input.  reader.ReadString('\n') returns the      *)
(* characters up to and with the first newline, or what there is and an    *)
(* error when the input ends before a newline.                             *)
NewLine == "\n"
WhiteSpace == {" ", NewLine, "\t", "\r"}
RECURSIVE FirstNewLine(_, _)
FirstNewLine(stdin, k) ==
    IF k > Len(stdin) THEN 0
    ELSE IF stdin[k] = NewLine THEN k
    ELSE FirstNewLine(stdin, k + 1)
ReadString(stdin) ==
    LET n == FirstNewLine(stdin, 1)
    IN  IF n = 0 THEN [err |-> TRUE, line |-> stdin]
        ELSE [err |-> FALSE, line |-> SubSeq(stdin, 1, n)]

(* strings.ToLower on the letters of the answers. *)
ToLowerRune(c) ==
    CASE c = "Y" -> "y"
      [] c = "E" -> "e"
      [] c = "S" -> "s"
      [] c = "N" -> "n"
      [] c = "O" -> "o"
      [] OTHER -> c
ToLower(line) == [k \in 1..Len(line) |-> ToLowerRune(line[k])]

(* strings.TrimSpace: leading and trailing white space removed. *)
RECURSIVE TrimLeft(_)
TrimLeft(line) ==
    IF line # <<>> /\ Head(line) \in WhiteSpace THEN TrimLeft(Tail(line))
    ELSE line
RECURSIVE TrimRight(_)
TrimRight(line) ==
    IF line # <<>> /\ line[Len(line)] \in WhiteSpace
    THEN TrimRight(SubSeq(line, 1, Len(line) - 1))
    ELSE line
(* Variant: only leading white space is removed. *)
TrimSpaceLeftOnly(line) == TrimLeft(line)

TrimSpace(line) == TrimRight(TrimLeft(line))

(* The case of the switch a trimmed, lower-cased line falls in. *)
SwitchCase(response) ==
    CASE response = <<"y", "e", "s">> -> "yes"
      [] response = <<"y">> -> "y"
      [] response = <<"n", "o">> -> "no"
      [] response = <<"n">> -> "n"
      [] OTHER -> "maybe"

(* promptForTransferConfirmation from its start: LANDROP_TEST_MODE == "1"  *)
(* returns before any prompt; a failed read rejects; else the switch.      *)
ConfirmTransfer(testMode, stdin) ==
    IF testMode THEN <<TRUE, <<>>>>
    ELSE LET read == ReadString(stdin)
         IN  IF read.err THEN promptForTransferConfirmation(ReadError)
             ELSE promptForTransferConfirmation(
                      SwitchCase(TrimSpace(ToLower(read.line))))

(* ReceiveFileChunked from the decoded request to the response: the prompt, *)
(* then getRequiredChunks, whose first statement divides by chunkSize.  An  *)
(* integer division by zero is a run-time panic; nothing recovers it, so    *)
(* the deferred calls run and the process ends: ReceiveFileChunked does not *)
(* return, and no response is built or written.                             *)
NoResponse == NewTransferResponse(FALSE, <<>>, <<>>)
AnswerRequest(request, exists, existingSize, answer) ==
    LET conf == promptForTransferConfirmation(answer)
    IN  IF request.chunk_size = 0
        THEN [prompted |-> TRUE, panic |-> TRUE, returned |-> FALSE,
              err |-> "none", sent |-> FALSE, response |-> NoResponse]
        ELSE [prompted |-> TRUE, panic |-> FALSE, returned |-> FALSE,
              err |-> "none", sent |-> TRUE,
              response |-> NewTransferResponse(
                               conf[1],
                               getRequiredChunks(exists, existingSize,
                                                 request.filesize,
                                                 request.chunk_size),
                               conf[2])]

(* ------------------------------ state ---------------------------------- *)
VARIABLES
    plan,        \* inputs and results of the chunk planner run on its own
    codec,       \* inputs and results of the frame and message codecs
    source,      \* sender: bytes of the file being sent
    chunkSize,   \* sender: DefaultChunkSize (scaled down)
    diskExists,  \* receiver: received_<filename> exists
    disk,        \* receiver: bytes of received_<filename>
    session,     \* number of the current session
    prev,        \* what the previous session left behind
    faults,      \* environment failures injected in this session
    connClosedBy,\* "none", "sender" or "receiver": who ran CloseWithError
    reqWire,     \* control stream, sender -> receiver
    respWire,    \* control stream, receiver -> sender
    streams,     \* data streams in the order the sender opened them
    spc,         \* sender: position in SendFileChunked
    sResume,     \* sender: response.ResumeChunks
    si,          \* sender: loop index i over response.ResumeChunks
    attempt,     \* sender: loop variable of sendChunkWithRetry
    sent,        \* sender: stats.SentChunks
    sErr,        \* sender: which error ended the session
    rpc,         \* receiver: position in ReceiveFileChunked
    rReq,        \* receiver: the decoded request
    accepted,    \* receiver: result of the confirmation prompt
    rResume,     \* receiver: response.ResumeChunks
    rP,          \* receiver: existingSize seen by the planner (-1: no file)
    ri,          \* receiver: loop index i over response.ResumeChunks
    nAccepted,   \* receiver: data streams accepted so far
    rChunk,      \* receiver: receivedChunk.Data awaiting WriteAt
    rWrites,     \* receiver: offsets of the WriteAt calls of this session
    rcvd,        \* receiver: stats.ReceivedChunks
    rErr,        \* receiver: which error ended the session
    pool,        \* BufferPool: its buffer size, its entries, the buffers handed out
    quicMsg,     \* SendQUICMessage / ReceiveQUICMessage and the connection between
    legacy,      \* SendFile / ReceiveFile (v1) and the receiver's file
    trust        \* TrustStore: its mutex, its peers, the goroutines calling it

vars == <<plan, codec, source, chunkSize, diskExists, disk, session, prev, faults,
          connClosedBy, reqWire, respWire, streams, spc, sResume, si, attempt,
          sent, sErr, rpc, rReq, accepted, rResume, rP, ri, nAccepted, rChunk,
          rWrites, rcvd, rErr, pool, quicMsg, legacy, trust>>

fileVars == <<plan, codec, source, chunkSize>>
senderVars == <<spc, sResume, si, attempt, sent, sErr>>
receiverVars == <<rpc, rReq, accepted, rResume, rP, ri, nAccepted, rChunk,
                  rWrites, rcvd, rErr>>
diskVars == <<diskExists, disk>>
metaVars == <<session, prev>>
sideVars == <<pool, quicMsg, legacy, trust>>
chunkedVars == <<fileVars, diskVars, metaVars, faults, connClosedBy, reqWire,
                 respWire, streams, senderVars, receiverVars>>

SenderEnded == spc \in {"DONE", "REJECTED", "FAILED"}
ReceiverEnded == rpc \in {"DONE", "REJECTED", "FAILED"}

NoPrev == [outcome |-> "none", rcvd |-> 0, fresh |-> FALSE]

(* State after both processes connected (quic.DialAddr / listener.Accept). *)
SessionStart ==
    /\ faults = <<>>
    /\ connClosedBy = "none"
    /\ reqWire = <<>>
    /\ respWire = <<>>
    /\ streams = <<>>
    /\ spc = "CONNECTED"
    /\ sResume = <<>>
    /\ si = 0
    /\ attempt = 0
    /\ sent = 0
    /\ sErr = "none"
    /\ rpc = "ACCEPTED"
    /\ rReq = NoRequest
    /\ accepted = FALSE
    /\ rResume = <<>>
    /\ rP = -1
    /\ ri = 0
    /\ nAccepted = 0
    /\ rChunk = <<>>
    /\ rWrites = <<>>
    /\ rcvd = 0
    /\ rErr = "none"

NoCodec == [stage |-> "none"]

(* The parts of the program outside the chunked transfer, not in use. *)
NoPool == [stage |-> "none"]
NoQuicMsg == [stage |-> "none"]
NoLegacy == [stage |-> "none"]
NoTrust == [stage |-> "none"]
SideIdle ==
    /\ pool = NoPool
    /\ quicMsg = NoQuicMsg
    /\ legacy = NoLegacy
    /\ trust = NoTrust

NoPlan ==
    [stage |-> "none", fileSize |-> 0, chunkSize |-> 1, exists |-> FALSE,
     existingSize |-> 0, required |-> <<>>, ranges |-> <<>>]

Init ==
    /\ plan = NoPlan
    /\ codec = NoCodec
    /\ source \in {SourceOfSize(n) : n \in 0..MaxFileSize}
    /\ chunkSize \in 1..MaxChunkSize
    /\ diskExists \in BOOLEAN
    /\ disk \in (IF diskExists
                 THEN UNION {FilesOfSize(k, source) : k \in 0..(MaxFileSize + 1)}
                 ELSE {<<>>})
    /\ session = 1
    /\ prev = NoPrev
    /\ SessionStart
    /\ SideIdle


(* --------------------------- environment ------------------------------- *)

CanFault == Len(faults) < MaxFaults
Fault(kind) == faults' = Append(faults, kind)

ConnOpen == connClosedBy = "none"
(* defer conn.CloseWithError(0, "") of whichever side returns first. *)
CloseConn(side) ==
    connClosedBy' = IF connClosedBy = "none" THEN side ELSE connClosedBy

(* A data stream as conn.OpenStreamSync returns it to                      *)
(* sendChunkReliably(ctx, conn, chunkIndex, data).                         *)
NewStream(chunkIndex) ==
    [pos |-> chunkIndex, written |-> FALSE, idx |-> 0, size |-> 0, sum |-> Digest(<<>>),
     data |-> <<>>, ack |-> -1, sOpen |-> TRUE, rClosed |-> FALSE,
     sres |-> "pending"]

Cur == Len(streams)
SetStream(n, s) == streams' = [streams EXCEPT ![n] = s]

(* ------------------------------ sender --------------------------------- *)

(* SendFileChunked: hash the file, write the request on the control stream. *)
SendRequest ==
    /\ spc = "CONNECTED"
    /\ reqWire' = <<SerializeMessage(NewTransferRequest(FileName, Len(source),
                                           Digest(source), chunkSize))>>
    /\ spc' = "REQ_SENT"
    /\ UNCHANGED <<fileVars, diskVars, metaVars, sideVars, faults, connClosedBy, respWire,
                   streams, sResume, si, attempt, sent, sErr, receiverVars>>

(* Read loop on the control stream, DeserializeTransferResponse, and the   *)
(* branch on response.Accepted.  A read on a closed connection fails.      *)
ReadResponse ==
    /\ spc = "REQ_SENT"
    /\ \/ /\ ConnOpen
          /\ respWire # <<>>
          /\ IF DeserializeTransferResponse(respWire[1]).accepted
             THEN /\ sResume' = DeserializeTransferResponse(respWire[1]).resume_chunks
                  /\ spc' = "SENDING"
                  /\ UNCHANGED <<connClosedBy, sErr>>
             ELSE /\ spc' = "REJECTED"
                  /\ CloseConn("sender")
                  /\ UNCHANGED <<sResume, sErr>>
       \/ /\ ~ConnOpen
          /\ spc' = "FAILED"
          /\ sErr' = "response"
          /\ UNCHANGED <<sResume, connClosedBy>>
    /\ UNCHANGED <<fileVars, diskVars, metaVars, sideVars, faults, reqWire, respWire,
                   streams, si, attempt, sent, receiverVars>>

(* Top of the chunk loop: offset and remaining of response.ResumeChunks[i]; *)
(* an entry with nothing left to send is counted and skipped.              *)
BeginChunk ==
    /\ spc = "SENDING"
    /\ si < Len(sResume)
    /\ IF ChunkRemaining(sResume[si + 1], chunkSize, Len(source)) <= 0
       THEN /\ sent' = sent + 1
            /\ si' = si + 1
            /\ UNCHANGED <<spc, attempt>>
       ELSE /\ attempt' = 0
            /\ spc' = "ATTEMPT"
            /\ UNCHANGED <<sent, si>>
    /\ UNCHANGED <<fileVars, diskVars, metaVars, sideVars, faults, connClosedBy, reqWire,
                   respWire, streams, sResume, sErr, receiverVars>>

(* Variant: one attempt too many. *)
RetryAllowedOffByOne(a) == a <= MaxRetries

(* for attempt := 0; attempt < MaxRetries; attempt++ *)
RetryAllowed(a) == a < MaxRetries

(* sendChunkReliably, first half: conn.OpenStreamSync. *)
OpenChunkStream ==
    /\ spc = "ATTEMPT"
    /\ RetryAllowed(attempt)
    /\ \/ /\ ConnOpen
          /\ streams' = Append(streams, NewStream(si))
          /\ spc' = "OPENED"
          /\ UNCHANGED <<attempt, faults>>
       \/ /\ ~ConnOpen
          /\ attempt' = attempt + 1
          /\ UNCHANGED <<spc, streams, faults>>
       \/ /\ ConnOpen
          /\ CanFault
          /\ Fault("open")
          /\ attempt' = attempt + 1
          /\ UNCHANGED <<spc, streams>>
    /\ UNCHANGED <<fileVars, diskVars, metaVars, sideVars, connClosedBy, reqWire,
                   respWire, sResume, si, sent, sErr, receiverVars>>

(* Variant: a failed attempt returns without closing its stream. *)
SenderClosedOnlyOnSuccess(s, result) ==
    [s EXCEPT !.sOpen = (result # "acked"), !.sres = result]

(* What the deferred chunkStream.Close() leaves of the sender's stream. *)
SenderClosed(s, result) == [s EXCEPT !.sOpen = FALSE, !.sres = result]

(* sendChunkReliably: write the header and the payload read from the file  *)
(* at the chunk's offset; the index written is the list position i.        *)
WriteFrame ==
    /\ spc = "OPENED"
    /\ LET data == ReadChunk(source, ChunkOffset(sResume[si + 1], chunkSize),
                             ChunkRemaining(sResume[si + 1], chunkSize, Len(source)))
           hdr  == EncodeHeader(si, data)
       IN \/ /\ ConnOpen
             /\ SetStream(Cur, [streams[Cur] EXCEPT !.written = TRUE,
                                    !.idx = hdr.idx, !.size = hdr.size,
                                    !.sum = hdr.sum, !.data = data])
             /\ spc' = "WAIT_ACK"
             /\ UNCHANGED <<attempt, faults>>
          \/ /\ ~ConnOpen
             /\ SetStream(Cur, SenderClosed(streams[Cur], "failed"))
             /\ attempt' = attempt + 1
             /\ spc' = "ATTEMPT"
             /\ UNCHANGED faults
          \/ /\ ConnOpen
             /\ CanFault
             /\ Fault("write")
             /\ SetStream(Cur, SenderClosed(streams[Cur], "failed"))
             /\ attempt' = attempt + 1
             /\ spc' = "ATTEMPT"
    /\ UNCHANGED <<fileVars, diskVars, metaVars, sideVars, connClosedBy, reqWire,
                   respWire, sResume, si, sent, sErr, receiverVars>>

(* Variant: any acknowledgement byte counts as success. *)
AckAny(s) == TRUE

(* if ack[0] != 1 { return error } *)
AckOK(s) == s.ack = 1

(* sendChunkReliably, second half: read one acknowledgement byte.  The     *)
(* read returns once a byte arrived, the peer closed the stream, or the    *)
(* connection was closed.                                                  *)
ReadAck ==
    /\ spc = "WAIT_ACK"
    /\ LET s == streams[Cur]
       IN /\ (~ConnOpen) \/ s.ack # -1 \/ s.rClosed
          /\ IF ConnOpen /\ s.ack # -1 /\ AckOK(s)
             THEN /\ SetStream(Cur, SenderClosed(s, "acked"))
                  /\ sent' = sent + 1
                  /\ si' = si + 1
                  /\ spc' = "SENDING"
                  /\ UNCHANGED attempt
             ELSE /\ SetStream(Cur, SenderClosed(s, "failed"))
                  /\ attempt' = attempt + 1
                  /\ spc' = "ATTEMPT"
                  /\ UNCHANGED <<sent, si>>
    /\ UNCHANGED <<fileVars, diskVars, metaVars, sideVars, faults, connClosedBy, reqWire,
                   respWire, sResume, sErr, receiverVars>>

(* sendChunkWithRetry returns lastErr; SendFileChunked returns the error. *)
SendChunkFailed ==
    /\ spc = "ATTEMPT"
    /\ ~RetryAllowed(attempt)
    /\ spc' = "FAILED"
    /\ sErr' = "chunk"
    /\ CloseConn("sender")
    /\ UNCHANGED <<fileVars, diskVars, metaVars, sideVars, faults, reqWire, respWire,
                   streams, sResume, si, attempt, sent, receiverVars>>

(* Variant: completion is reported with the last position still to send. *)
SenderFinishEarly ==
    /\ spc = "SENDING"
    /\ si >= Len(sResume) - 1
    /\ spc' = "DONE"
    /\ CloseConn("sender")
    /\ UNCHANGED <<fileVars, diskVars, metaVars, sideVars, faults, reqWire, respWire,
                   streams, sResume, si, attempt, sent, sErr, receiverVars>>

(* After the loop: sleep, stats.MarkCompleted(), return nil. *)
SenderFinish ==
    /\ spc = "SENDING"
    /\ si = Len(sResume)
    /\ spc' = "DONE"
    /\ CloseConn("sender")
    /\ UNCHANGED <<fileVars, diskVars, metaVars, sideVars, faults, reqWire, respWire,
                   streams, sResume, si, attempt, sent, sErr, receiverVars>>


(* ----------------------------- receiver -------------------------------- *)

(* Variant: the failure is noted and the chunk loop goes on. *)
ReceiverCarriesOn(kind) ==
    /\ rpc' = "RECEIVING"
    /\ rErr' = kind
    /\ UNCHANGED connClosedBy

(* The receiver returns an error: the deferred CloseWithError runs. *)
ReceiverFails(kind) ==
    /\ rpc' = "FAILED"
    /\ rErr' = kind
    /\ CloseConn("receiver")

(* Read and decode the request, prompt, compute the required chunks from   *)
(* the file on disk, write the response on the control stream.             *)
ReceiveRequest ==
    /\ rpc = "ACCEPTED"
    /\ ConnOpen
    /\ reqWire # <<>>
    /\ \E answer \in Answers :
         LET req      == DeserializeTransferRequest(reqWire[1])
             conf     == promptForTransferConfirmation(answer)
             required == getRequiredChunks(diskExists, Len(disk), req.filesize,
                                           req.chunk_size)
         IN /\ rReq' = req
            /\ accepted' = conf[1]
            /\ rResume' = required
            /\ rP' = IF diskExists THEN Len(disk) ELSE -1
            /\ respWire' = <<SerializeMessage(
                                NewTransferResponse(conf[1], required, conf[2]))>>
    /\ rpc' = "RESP_SENT"
    /\ UNCHANGED <<fileVars, diskVars, metaVars, sideVars, faults, connClosedBy, reqWire,
                   streams, senderVars, ri, nAccepted, rChunk, rWrites, rcvd,
                   rErr>>

(* Variant: the output file is created before the answer is looked at. *)
OpenOutputFileFirst ==
    /\ rpc = "RESP_SENT"
    /\ diskExists' = TRUE
    /\ disk' = (IF diskExists THEN disk ELSE <<>>)
    /\ IF ~accepted
       THEN /\ rpc' = "REJECTED"
            /\ rErr' = "rejected"
            /\ CloseConn("receiver")
       ELSE /\ rpc' = "RECEIVING"
            /\ UNCHANGED <<rErr, connClosedBy>>
    /\ UNCHANGED <<fileVars, metaVars, sideVars, faults, reqWire, respWire, streams,
                   senderVars, rReq, accepted, rResume, rP, ri, nAccepted,
                   rChunk, rWrites, rcvd>>

(* Variant: the output file is opened with O_TRUNC. *)
OpenOutputFileTruncates ==
    /\ rpc = "RESP_SENT"
    /\ IF ~accepted
       THEN /\ rpc' = "REJECTED"
            /\ rErr' = "rejected"
            /\ CloseConn("receiver")
            /\ UNCHANGED diskVars
       ELSE /\ rpc' = "RECEIVING"
            /\ diskExists' = TRUE
            /\ disk' = <<>>
            /\ UNCHANGED <<rErr, connClosedBy>>
    /\ UNCHANGED <<fileVars, metaVars, sideVars, faults, reqWire, respWire, streams,
                   senderVars, rReq, accepted, rResume, rP, ri, nAccepted,
                   rChunk, rWrites, rcvd>>

(* After the 50 ms sleep: return on a rejection, else                      *)
(* os.OpenFile(outputFilename, O_CREATE|O_WRONLY).                         *)
OpenOutputFile ==
    /\ rpc = "RESP_SENT"
    /\ IF ~accepted
       THEN /\ rpc' = "REJECTED"
            /\ rErr' = "rejected"
            /\ CloseConn("receiver")
            /\ UNCHANGED diskVars
       ELSE /\ rpc' = "RECEIVING"
            /\ diskExists' = TRUE
            /\ disk' = (IF diskExists THEN disk ELSE <<>>)
            /\ UNCHANGED <<rErr, connClosedBy>>
    /\ UNCHANGED <<fileVars, metaVars, sideVars, faults, reqWire, respWire, streams,
                   senderVars, rReq, accepted, rResume, rP, ri, nAccepted,
                   rChunk, rWrites, rcvd>>

(* Chunk loop: conn.AcceptStream(streamCtx) with the 30 s stream timeout. *)
AcceptChunkStream ==
    /\ rpc = "RECEIVING"
    /\ ri < Len(rResume)
    /\ \/ /\ ConnOpen
          /\ nAccepted < Len(streams)
          /\ nAccepted' = nAccepted + 1
          /\ rpc' = "READ_CHUNK"
          /\ UNCHANGED <<rErr, connClosedBy, faults>>
       \/ /\ ~ConnOpen
          /\ ReceiverFails("accept")
          /\ UNCHANGED <<nAccepted, faults>>
       \/ /\ ConnOpen
          /\ nAccepted = Len(streams)
          /\ CanFault
          /\ Fault("accept")
          /\ ReceiverFails("accept")
          /\ UNCHANGED nAccepted
    /\ UNCHANGED <<fileVars, diskVars, metaVars, sideVars, reqWire, respWire, streams,
                   senderVars, rReq, accepted, rResume, rP, ri, rChunk,
                   rWrites, rcvd>>

(* if receivedChunkIndex != expectedChunkIndex { return error } *)
IndexMatches(receivedChunkIndex, expectedChunkIndex) ==
    receivedChunkIndex = expectedChunkIndex

(* Variant: the payload's digest is not compared. *)
ChecksumNotVerified(data, receivedChecksum) == TRUE

(* bytes.Equal(sha256.Sum256(data), receivedChecksum) *)
ChecksumOK(data, receivedChecksum) == Digest(data) = receivedChecksum

(* receiveChunkReliably as a function of the bytes on the stream and the   *)
(* expected index: the error it returns, the acknowledgement byte it       *)
(* writes (-1: none) and the chunk it hands to ReceiveFileChunked.         *)
NoChunk == [index |-> -1, size |-> 0, data |-> <<>>]
receiveChunkReliably(frame, expectedChunkIndex) ==
    LET receivedChunkIndex == frame.idx
        dataSize           == frame.size
        data               == SubSeq(frame.data, 1, dataSize)
    IN  IF ~IndexMatches(receivedChunkIndex, expectedChunkIndex)
        THEN [err |-> "index", ack |-> -1, chunk |-> NoChunk]
        ELSE IF Len(frame.data) < dataSize
        THEN [err |-> "read", ack |-> -1, chunk |-> NoChunk]
        ELSE IF ~ChecksumOK(data, frame.sum)
        THEN [err |-> "checksum", ack |-> -1, chunk |-> NoChunk]
        ELSE [err |-> "none", ack |-> 1,
              chunk |-> [index |-> receivedChunkIndex, size |-> dataSize,
                         data |-> data]]

(* receiveChunkReliably(ctx, chunkStream, i): read the header, check the   *)
(* index, read the payload, check the digest, write the acknowledgement    *)
(* byte (a failed write of it is only logged).                             *)
ReceiveChunk ==
    /\ rpc = "READ_CHUNK"
    /\ LET s == streams[nAccepted]
       IN /\ (~ConnOpen) \/ s.written \/ ~s.sOpen
          /\ \/ /\ (~ConnOpen) \/ ~s.written
                /\ ReceiverFails("read")
                /\ UNCHANGED <<streams, rChunk, faults>>
             \/ /\ ConnOpen /\ s.written
                /\ ~IndexMatches(s.idx, ri)
                /\ ReceiverFails("index")
                /\ UNCHANGED <<streams, rChunk, faults>>
             \/ /\ ConnOpen /\ s.written
                /\ IndexMatches(s.idx, ri)
                /\ ~ChecksumOK(s.data, s.sum)
                /\ ReceiverFails("checksum")
                /\ UNCHANGED <<streams, rChunk, faults>>
             \/ /\ ConnOpen /\ s.written
                /\ IndexMatches(s.idx, ri)
                /\ ChecksumOK(s.data, s.sum)
                /\ \/ /\ SetStream(nAccepted, [s EXCEPT !.ack = 1])
                      /\ UNCHANGED faults
                   \/ /\ CanFault
                      /\ Fault("ackwrite")
                      /\ UNCHANGED streams
                /\ rChunk' = s.data
                /\ rpc' = "WRITE_CHUNK"
                /\ UNCHANGED <<rErr, connClosedBy>>
    /\ UNCHANGED <<fileVars, diskVars, metaVars, sideVars, reqWire, respWire, senderVars,
                   rReq, accepted, rResume, rP, ri, nAccepted, rWrites, rcvd>>

(* Variant: the list position is used in place of the chunk identity. *)
WriteOffsetByPosition(resumeChunks, i, chunkSz) == i * chunkSz

(* Variant: the list is computed again from the file as it is now. *)
WriteOffsetReplanned(resumeChunks, i, chunkSz) ==
    LET again == getRequiredChunks(diskExists, Len(disk), rReq.filesize, chunkSz)
    IN  IF i + 1 <= Len(again) THEN again[i + 1] * chunkSz
        ELSE resumeChunks[i + 1] * chunkSz

(* offset := int64(chunkIndex) * request.ChunkSize with                    *)
(* chunkIndex := response.ResumeChunks[i]                                  *)
WriteOffset(resumeChunks, i, chunkSz) == resumeChunks[i + 1] * chunkSz

(* outputFile.WriteAt(receivedChunk.Data, offset), chunkStream.Close(),    *)
(* stats.IncrementReceivedChunks().                                        *)
WriteChunk ==
    /\ rpc = "WRITE_CHUNK"
    /\ LET offset == WriteOffset(rResume, ri, rReq.chunk_size)
       IN \/ /\ disk' = WriteAt(disk, rChunk, offset)
             /\ rWrites' = Append(rWrites, offset)
             /\ SetStream(nAccepted, [streams[nAccepted] EXCEPT !.rClosed = TRUE])
             /\ rcvd' = rcvd + 1
             /\ ri' = ri + 1
             /\ rpc' = "RECEIVING"
             /\ UNCHANGED <<rErr, connClosedBy, faults>>
          \/ /\ CanFault
             /\ Fault("diskwrite")
             /\ ReceiverFails("write")
             /\ disk' \in FailedWriteAt(disk, rChunk, offset)
             /\ UNCHANGED <<rWrites, streams, rcvd, ri>>
    /\ rChunk' = <<>>
    /\ UNCHANGED <<fileVars, diskExists, metaVars, sideVars, reqWire, respWire,
                   senderVars, rReq, accepted, rResume, rP, nAccepted>>

(* Variant: a file that fails the integrity check is removed. *)
VerifyRemovesBadFile ==
    /\ rpc = "RECEIVING"
    /\ ri = Len(rResume)
    /\ IF verifyFileIntegrity(disk, rReq.filehash)
       THEN /\ rpc' = "DONE"
            /\ UNCHANGED <<rErr, diskVars>>
       ELSE /\ rpc' = "FAILED"
            /\ rErr' = "integrity"
            /\ diskExists' = FALSE
            /\ disk' = <<>>
    /\ CloseConn("receiver")
    /\ UNCHANGED <<fileVars, metaVars, sideVars, faults, reqWire, respWire,
                   streams, senderVars, rReq, accepted, rResume, rP, ri,
                   nAccepted, rChunk, rWrites, rcvd>>

(* Variant: with an empty list the file is taken as complete unverified. *)
VerifySkippedForEmptyList ==
    /\ rpc = "RECEIVING"
    /\ ri = Len(rResume)
    /\ IF rResume = <<>> \/ verifyFileIntegrity(disk, rReq.filehash)
       THEN /\ rpc' = "DONE"
            /\ UNCHANGED rErr
       ELSE /\ rpc' = "FAILED"
            /\ rErr' = "integrity"
    /\ CloseConn("receiver")
    /\ UNCHANGED <<fileVars, diskVars, metaVars, sideVars, faults, reqWire, respWire,
                   streams, senderVars, rReq, accepted, rResume, rP, ri,
                   nAccepted, rChunk, rWrites, rcvd>>

(* Variant: the end of the session needs the connection to be open. *)
VerifyNeedsConnection ==
    /\ rpc = "RECEIVING"
    /\ ri = Len(rResume)
    /\ IF ~ConnOpen
       THEN /\ rpc' = "FAILED"
            /\ rErr' = "accept"
       ELSE IF verifyFileIntegrity(disk, rReq.filehash)
       THEN /\ rpc' = "DONE"
            /\ UNCHANGED rErr
       ELSE /\ rpc' = "FAILED"
            /\ rErr' = "integrity"
    /\ CloseConn("receiver")
    /\ UNCHANGED <<fileVars, diskVars, metaVars, sideVars, faults, reqWire, respWire,
                   streams, senderVars, rReq, accepted, rResume, rP, ri,
                   nAccepted, rChunk, rWrites, rcvd>>

(* After the loop: outputFile.Close(), verifyFileIntegrity, return.        *)
Verify ==
    /\ rpc = "RECEIVING"
    /\ ri = Len(rResume)
    /\ IF verifyFileIntegrity(disk, rReq.filehash)
       THEN /\ rpc' = "DONE"
            /\ UNCHANGED rErr
       ELSE /\ rpc' = "FAILED"
            /\ rErr' = "integrity"
    /\ CloseConn("receiver")
    /\ UNCHANGED <<fileVars, diskVars, metaVars, sideVars, faults, reqWire, respWire,
                   streams, senderVars, rReq, accepted, rResume, rP, ri,
                   nAccepted, rChunk, rWrites, rcvd>>

(* ------------------------- transport faults ---------------------------- *)

(* A payload byte of a frame in flight is altered before the receiver      *)
(* reads it.                                                               *)
CorruptFrame ==
    /\ CanFault
    /\ \E n \in 1..Len(streams) :
         /\ streams[n].written
         /\ n > nAccepted \/ (n = nAccepted /\ rpc = "READ_CHUNK")
         /\ \E p \in 1..Len(streams[n].data) :
              SetStream(n, [streams[n] EXCEPT !.data[p] = ZeroByte])
    /\ Fault("corrupt")
    /\ UNCHANGED <<fileVars, diskVars, metaVars, sideVars, connClosedBy, reqWire,
                   respWire, senderVars, receiverVars>>

(* The acknowledgement byte in flight is altered before the sender reads it. *)
GarbleAck ==
    /\ CanFault
    /\ spc = "WAIT_ACK"
    /\ streams[Cur].ack = 1
    /\ SetStream(Cur, [streams[Cur] EXCEPT !.ack = 0])
    /\ Fault("ackgarble")
    /\ UNCHANGED <<fileVars, diskVars, metaVars, sideVars, connClosedBy, reqWire,
                   respWire, senderVars, receiverVars>>

(* ----------------------------- sessions -------------------------------- *)

(* Both processes returned; the user runs send and recv-chunked again for  *)
(* the same file.  Only the receiver's output file carries over.           *)
NewSession ==
    /\ SenderEnded
    /\ ReceiverEnded
    /\ session < MaxSessions
    /\ session' = session + 1
    /\ prev' = [outcome |-> rpc, rcvd |-> rcvd, fresh |-> (rP = -1)]
    /\ faults' = <<>>
    /\ connClosedBy' = "none"
    /\ reqWire' = <<>>
    /\ respWire' = <<>>
    /\ streams' = <<>>
    /\ spc' = "CONNECTED"
    /\ sResume' = <<>>
    /\ si' = 0
    /\ attempt' = 0
    /\ sent' = 0
    /\ sErr' = "none"
    /\ rpc' = "ACCEPTED"
    /\ rReq' = NoRequest
    /\ accepted' = FALSE
    /\ rResume' = <<>>
    /\ rP' = -1
    /\ ri' = 0
    /\ nAccepted' = 0
    /\ rChunk' = <<>>
    /\ rWrites' = <<>>
    /\ rcvd' = 0
    /\ rErr' = "none"
    /\ UNCHANGED <<fileVars, diskVars, sideVars>>

Next ==
    \/ SendRequest
    \/ ReadResponse
    \/ BeginChunk
    \/ OpenChunkStream
    \/ WriteFrame
    \/ ReadAck
    \/ SendChunkFailed
    \/ SenderFinish
    \/ ReceiveRequest
    \/ OpenOutputFile
    \/ AcceptChunkStream
    \/ ReceiveChunk
    \/ WriteChunk
    \/ Verify
    \/ CorruptFrame
    \/ GarbleAck
    \/ NewSession

Spec == Init /\ [][Next]_vars

(* The sender and the receiver are separate processes: a step of one that  *)
(* stays possible is eventually taken.  Faults and new sessions are left   *)
(* to the environment.                                                     *)
SenderStep ==
    \/ SendRequest
    \/ ReadResponse
    \/ BeginChunk
    \/ OpenChunkStream
    \/ WriteFrame
    \/ ReadAck
    \/ SendChunkFailed
    \/ SenderFinish

ReceiverStep ==
    \/ ReceiveRequest
    \/ OpenOutputFile
    \/ AcceptChunkStream
    \/ ReceiveChunk
    \/ WriteChunk
    \/ Verify

FairSpec == Spec /\ WF_vars(SenderStep) /\ WF_vars(ReceiverStep)

(* The sender alone keeps running; nothing is assumed of the receiver,     *)
(* which may stall at any point.                                           *)
SenderFairSpec == Spec /\ WF_vars(SenderStep)

(* ------------------------ the planner on its own ----------------------- *)

(* getRequiredChunks and the sender's range computation applied to every   *)
(* (filesize, chunk_size, existing file) of the bounded input space.       *)
InitPlan ==
    /\ \E f \in 0..MaxPlanFileSize, c \in 1..MaxPlanChunkSize,
          e \in BOOLEAN, x \in 0..(MaxPlanFileSize + 2) :
         /\ e \/ x = 0
         /\ plan = [stage |-> "input", fileSize |-> f, chunkSize |-> c,
                    exists |-> e, existingSize |-> x, required |-> <<>>,
                    ranges |-> <<>>]
    /\ codec = NoCodec
    /\ source = <<>>
    /\ chunkSize = 1
    /\ diskExists = FALSE
    /\ disk = <<>>
    /\ session = 1
    /\ prev = NoPrev
    /\ SessionStart
    /\ SideIdle

(* Receiver: getRequiredChunks(filename, fileSize, chunkSize). *)
PlanRequired ==
    /\ plan.stage = "input"
    /\ plan' = [plan EXCEPT !.stage = "required",
                            !.required = getRequiredChunks(plan.exists,
                                             plan.existingSize, plan.fileSize,
                                             plan.chunkSize)]
    /\ UNCHANGED <<codec, source, chunkSize, diskVars, metaVars, sideVars, faults,
                   connClosedBy, reqWire, respWire, streams, senderVars,
                   receiverVars>>

(* Sender: offset and length of every chunk 0 .. totalChunks-1. *)
PlanRanges ==
    /\ plan.stage = "required"
    /\ plan' = [plan EXCEPT !.stage = "ranges",
                            !.ranges = SendRanges(1,
                                [k \in 1..TotalChunks(plan.fileSize, plan.chunkSize)
                                    |-> k - 1],
                                plan.chunkSize, plan.fileSize)]
    /\ UNCHANGED <<codec, source, chunkSize, diskVars, metaVars, sideVars, faults,
                   connClosedBy, reqWire, respWire, streams, senderVars,
                   receiverVars>>

NextPlan ==
    \/ PlanRequired
    \/ PlanRanges

SpecPlan == InitPlan /\ [][NextPlan]_vars

(* ------------------------ the codecs on their own ---------------------- *)

(* The first value that does not fit the index field of the header. *)
FieldLimit == 2 ^ (HeaderFieldBytes * ByteBits)
IdentityInputs == {0, 1, FieldLimit - 1, FieldLimit, FieldLimit + 1}
PayloadBytes == {1, 2}
Payloads == UNION {[1..n -> PayloadBytes] : n \in 0..MaxCodecLen}
Strings == UNION {[1..n -> {"a", InvalidByte}] : n \in 0..MaxCodecLen}
(* The rejection messages the program can produce. *)
RejectionMsgs == {promptForTransferConfirmation(a)[2] : a \in Answers}
Lists == UNION {[1..n -> 0..MaxCodecLen] : n \in 0..MaxCodecLen}
NoFrame == [idx |-> 0, size |-> 0, sum |-> Digest(<<>>), data |-> <<>>]
NoResult == [err |-> "pending", ack |-> -1, chunk |-> NoChunk]

(* A receiver that planned (fileSize, chunkSize) expects index on its next *)
(* stream; the peer calls its send routine with (index, data).             *)
FrameInputs ==
    {[stage |-> "frame-input", fileSize |-> f, chunkSize |-> c, index |-> i,
      data |-> d, frame |-> NoFrame, altered |-> FALSE, result |-> NoResult] :
        f \in 0..MaxFileSize, c \in 1..MaxChunkSize, i \in IdentityInputs,
        d \in Payloads}

RequestInputs ==
    {[stage |-> "message", msg |-> NewTransferRequest(n, f, Digest(d), c),
      wire |-> <<>>, decoded |-> DecodeError] :
        n \in Strings, f \in 0..MaxFileSize, d \in {<<>>, <<1>>},
        c \in 0..MaxChunkSize}

ResponseInputs ==
    {[stage |-> "message", msg |-> NewTransferResponse(a, l, m),
      wire |-> <<>>, decoded |-> DecodeError] :
        a \in BOOLEAN, l \in Lists, m \in RejectionMsgs}

(* What a user may type: the letters of the answers in either case, white  *)
(* space, the end of a line; the input may end at any point.               *)
AnswerRunes == {"y", "Y", "e", "s", "n", "o", " ", NewLine}
PromptInputs ==
    {[stage |-> "prompt-input", testMode |-> m, stdin |-> t] :
        m \in BOOLEAN,
        t \in UNION {[1..n -> AnswerRunes] : n \in 0..MaxAnswerLen}}

InitCodec ==
    /\ codec \in FrameInputs \cup RequestInputs \cup ResponseInputs
                 \cup PromptInputs
    /\ plan = NoPlan
    /\ source = <<>>
    /\ chunkSize = 1
    /\ diskExists = FALSE
    /\ disk = <<>>
    /\ session = 1
    /\ prev = NoPrev
    /\ SessionStart
    /\ SideIdle

(* sendChunkReliably: header and payload as written on the stream. *)
EncodeFrame ==
    /\ codec.stage = "frame-input"
    /\ codec' = [codec EXCEPT !.stage = "framed",
                              !.frame = ChunkFrame(codec.index, codec.data)]
    /\ UNCHANGED <<plan, source, chunkSize, diskVars, metaVars, sideVars, faults,
                   connClosedBy, reqWire, respWire, streams, senderVars,
                   receiverVars>>

(* A payload byte or the digest of the frame is altered on the way. *)
AlterFrame ==
    /\ codec.stage = "framed"
    /\ ~codec.altered
    /\ \/ \E p \in 1..Len(codec.frame.data) :
             codec' = [codec EXCEPT !.altered = TRUE,
                                    !.frame.data[p] = ZeroByte]
       \/ codec' = [codec EXCEPT !.altered = TRUE,
                                 !.frame.sum =
                                     Digest(Append(codec.frame.data, ZeroByte))]
    /\ UNCHANGED <<plan, source, chunkSize, diskVars, metaVars, sideVars, faults,
                   connClosedBy, reqWire, respWire, streams, senderVars,
                   receiverVars>>

(* receiveChunkReliably(ctx, chunkStream, expectedChunkIndex) *)
ReceiveFrame ==
    /\ codec.stage = "framed"
    /\ codec' = [codec EXCEPT !.stage = "received",
                              !.result = receiveChunkReliably(codec.frame,
                                                              codec.index)]
    /\ UNCHANGED <<plan, source, chunkSize, diskVars, metaVars, sideVars, faults,
                   connClosedBy, reqWire, respWire, streams, senderVars,
                   receiverVars>>

(* The segments a text falls into when cut after the positions in cuts. *)
Segments(text, cuts) ==
    LET n        == Cardinality(cuts) + 1
        last(k)  == IF k = n THEN Len(text)
                    ELSE CHOOSE c \in cuts : Cardinality({d \in cuts : d < c}) = k - 1
        first(k) == IF k = 1 THEN 1 ELSE last(k - 1) + 1
    IN  [k \in 1..n |-> SubSeq(text, first(k), last(k))]

(* What the reads on the control stream return when the first d segments   *)
(* arrive and the stream then stays open, ends, ends together with the     *)
(* last of them, or fails with the connection.                             *)
Endings == {"open", "EOF", "EOF with data", "closed"}
ReadsOf(segs, d, ending) ==
    LET plain == [k \in 1..d |-> [data |-> segs[k], err |-> "none"]]
    IN  CASE ending = "open" -> plain
          [] ending = "EOF" -> Append(plain, [data |-> <<>>, err |-> "EOF"])
          [] ending = "closed" -> Append(plain, [data |-> <<>>, err |-> "closed"])
          [] ending = "EOF with data" -> [plain EXCEPT ![d].err = "EOF"]

ReadSequences(text) ==
    {ReadsOf(Segments(text, cuts), d, e) :
        <<cuts, d, e>> \in
            {x \in {c \in SUBSET (1..(Len(text) - 1)) : Cardinality(c) <= MaxCuts}
                       \X (0..(MaxCuts + 1)) \X Endings :
                /\ x[2] <= Cardinality(x[1]) + 1
                /\ x[3] = "open" => x[2] = Cardinality(x[1]) + 1
                /\ x[3] = "EOF with data" => x[2] >= 1}}

(* SerializeMessage(msg) *)
EncodeMessage ==
    /\ codec.stage = "message"
    /\ codec' = [codec EXCEPT !.stage = "wire",
                              !.wire = SerializeMessage(codec.msg)]
    /\ UNCHANGED <<plan, source, chunkSize, diskVars, metaVars, sideVars, faults,
                   connClosedBy, reqWire, respWire, streams, senderVars,
                   receiverVars>>

(* DeserializeTransferRequest(data) / DeserializeTransferResponse(data) *)
DecodeMessage ==
    /\ codec.stage = "wire"
    /\ codec' = [codec EXCEPT !.stage = "decoded",
                              !.decoded =
                                  IF codec.msg.type = MessageTransferRequest
                                  THEN DeserializeTransferRequest(codec.wire)
                                  ELSE DeserializeTransferResponse(codec.wire)]
    /\ UNCHANGED <<plan, source, chunkSize, diskVars, metaVars, sideVars, faults,
                   connClosedBy, reqWire, respWire, streams, senderVars,
                   receiverVars>>

(* Discriminators a peer may put in the "type" member: the two message     *)
(* kinds, another tag, the empty string, or no member at all.              *)
NoTypeMember == "(absent)"
Discriminators ==
    {MessageTransferRequest, MessageTransferResponse, "CHUNK_DATA", "",
     NoTypeMember}
Retagged(doc, t) ==
    IF t = NoTypeMember THEN [k \in DOMAIN doc \ {"type"} |-> doc[k]]
    ELSE [doc EXCEPT !["type"] = t]

(* Either decoder applied to a document of either kind whose "type" member *)
(* a peer has set at will.                                                 *)
DecodeRetagged ==
    /\ codec.stage = "wire"
    /\ \E kind \in {MessageTransferRequest, MessageTransferResponse},
          t \in Discriminators :
         LET doc == Retagged(codec.wire, t)
         IN  codec' = [stage |-> "decoded-as", msg |-> codec.msg, wire |-> doc,
                       kind |-> kind,
                       decoded |-> IF kind = MessageTransferRequest
                                   THEN DeserializeTransferRequest(doc)
                                   ELSE DeserializeTransferResponse(doc)]
    /\ UNCHANGED <<plan, source, chunkSize, diskVars, metaVars, sideVars, faults,
                   connClosedBy, reqWire, respWire, streams, senderVars,
                   receiverVars>>

(* The read loop of SendFileChunked / ReceiveFileChunked on the text of    *)
(* the message, delivered in one of the ways of ReadSequences.             *)
ReadControl ==
    /\ codec.stage = "wire"
    /\ \E reads \in ReadSequences(JSONText(codec.wire)) :
         codec' = [stage |-> "read", msg |-> codec.msg, wire |-> codec.wire,
                   text |-> JSONText(codec.wire), reads |-> reads,
                   result |-> ControlRead(reads, 1, <<>>, codec.msg.type)]
    /\ UNCHANGED <<plan, source, chunkSize, diskVars, metaVars, sideVars, faults,
                   connClosedBy, reqWire, respWire, streams, senderVars,
                   receiverVars>>

(* accepted, rejectionMsg := promptForTransferConfirmation(request) *)
Prompt ==
    /\ codec.stage = "prompt-input"
    /\ codec' = [stage |-> "prompted", testMode |-> codec.testMode,
                 stdin |-> codec.stdin,
                 result |-> ConfirmTransfer(codec.testMode, codec.stdin)]
    /\ UNCHANGED <<plan, source, chunkSize, diskVars, metaVars, sideVars, faults,
                   connClosedBy, reqWire, respWire, streams, senderVars,
                   receiverVars>>

(* The receiver's answer to a request as it came off the wire, for every   *)
(* answer of the user and every output file it may hold.                   *)
AnswerDecodedRequest ==
    /\ codec.stage = "wire"
    /\ codec.msg.type = MessageTransferRequest
    /\ \E answer \in Answers, exists \in BOOLEAN, existingSize \in 0..MaxFileSize :
         /\ exists \/ existingSize = 0
         /\ codec' = [stage |-> "answered",
                      request |-> DeserializeTransferRequest(codec.wire),
                      answer |-> answer,
                      outcome |-> AnswerRequest(
                                      DeserializeTransferRequest(codec.wire),
                                      exists, existingSize, answer)]
    /\ UNCHANGED <<plan, source, chunkSize, diskVars, metaVars, sideVars, faults,
                   connClosedBy, reqWire, respWire, streams, senderVars,
                   receiverVars>>

NextCodec ==
    \/ EncodeFrame
    \/ AlterFrame
    \/ ReceiveFrame
    \/ EncodeMessage
    \/ DecodeMessage
    \/ DecodeRetagged
    \/ ReadControl
    \/ Prompt
    \/ AnswerDecodedRequest

SpecCodec == InitCodec /\ [][NextCodec]_vars

(* ---------------------------- buffer pool ------------------------------ *)

(* A []byte as the pool sees it: its length and its capacity.  The pool    *)
(* is a sync.Pool: Get hands out one of the entries put back, or a new     *)
(* buffer from New when it finds none (an entry may sit in a cache Get     *)
(* does not look at), and the runtime may drop entries at any time.        *)
Slice(len, cap) == [len |-> len, cap |-> cap]

(* NewBufferPool: New: make([]byte, bufferSize) *)
NewBuffer(bufferSize) == Slice(bufferSize, bufferSize)

(* buffer[:n] *)
Reslice(buffer, n) == Slice(n, buffer.cap)

(* bp.pool.Put(buffer[:0]) *)
PutEntry(buffer) == Reslice(buffer, 0)

(* if cap(buffer) == len(buffer) *)
PutAccepts(buffer) == buffer.cap = buffer.len

Without(seq, k) == SubSeq(seq, 1, k - 1) \o SubSeq(seq, k + 1, Len(seq))

InitPool ==
    /\ \E bufferSize \in 1..MaxBufferSize :
         pool = [stage |-> "pool", size |-> bufferSize, entries |-> <<>>,
                 held |-> <<>>, gets |-> 0]
    /\ quicMsg = NoQuicMsg
    /\ legacy = NoLegacy
    /\ trust = NoTrust
    /\ plan = NoPlan
    /\ codec = NoCodec
    /\ source = <<>>
    /\ chunkSize = 1
    /\ diskExists = FALSE
    /\ disk = <<>>
    /\ session = 1
    /\ prev = NoPrev
    /\ SessionStart

(* BufferPool.Get: an entry of the pool, or a new buffer. *)
PoolGet ==
    /\ pool.stage = "pool"
    /\ pool.gets < MaxGets
    /\ \/ \E k \in 1..Len(pool.entries) :
            pool' = [pool EXCEPT !.entries = Without(pool.entries, k),
                                 !.held = Append(pool.held, pool.entries[k]),
                                 !.gets = pool.gets + 1]
       \/ pool' = [pool EXCEPT !.held = Append(pool.held, NewBuffer(pool.size)),
                               !.gets = pool.gets + 1]
    /\ UNCHANGED <<chunkedVars, quicMsg, legacy, trust>>

(* BufferPool.Put of a buffer a caller holds, as it got it or resliced     *)
(* (chunkData[:size]).                                                     *)
PoolPut ==
    /\ pool.stage = "pool"
    /\ \E k \in 1..Len(pool.held), n \in 0..pool.size :
         LET buffer == Reslice(pool.held[k], n)
         IN  /\ n <= buffer.cap
             /\ pool' = [pool EXCEPT
                            !.held = Without(pool.held, k),
                            !.entries = IF PutAccepts(buffer)
                                        THEN Append(pool.entries, PutEntry(buffer))
                                        ELSE pool.entries]
    /\ UNCHANGED <<chunkedVars, quicMsg, legacy, trust>>

(* The runtime drops an entry of the sync.Pool (garbage collection). *)
PoolDrop ==
    /\ pool.stage = "pool"
    /\ \E k \in 1..Len(pool.entries) :
         pool' = [pool EXCEPT !.entries = Without(pool.entries, k)]
    /\ UNCHANGED <<chunkedVars, quicMsg, legacy, trust>>

NextPool ==
    \/ PoolGet
    \/ PoolPut
    \/ PoolDrop

SpecPool == InitPool /\ [][NextPool]_vars

(* --------------------------- QUIC message ------------------------------ *)

(* SendQUICMessage and ReceiveQUICMessage over one connection.  The stream *)
(* data of Write is buffered by the transport and goes out when its send   *)
(* loop runs; CloseWithError sends the connection close at once and drops  *)
(* what is still buffered.  Packets arrive in any order.                   *)
Messages == UNION {[1..n -> {"a", "b"}] : n \in 0..MaxMessageLen}

InitQuic ==
    /\ \E m \in Messages :
         quicMsg = [stage |-> "quic", msg |-> m, s |-> "START", sErr |-> "none",
                    r |-> "LISTENING", rErr |-> "none", read |-> <<>>,
                    established |-> FALSE, buffered |-> FALSE,
                    dataSent |-> FALSE, dataAt |-> FALSE,
                    closeSent |-> FALSE, closeAt |-> FALSE]
    /\ pool = NoPool
    /\ legacy = NoLegacy
    /\ trust = NoTrust
    /\ plan = NoPlan
    /\ codec = NoCodec
    /\ source = <<>>
    /\ chunkSize = 1
    /\ diskExists = FALSE
    /\ disk = <<>>
    /\ session = 1
    /\ prev = NoPrev
    /\ SessionStart

QuicStep(next) ==
    /\ quicMsg.stage = "quic"
    /\ quicMsg' = next
    /\ UNCHANGED <<chunkedVars, pool, legacy, trust>>

(* conn, err := quic.DialAddr(ctx, peerAddr, tlsConfig, nil) *)
QDial ==
    /\ quicMsg.s = "START"
    /\ \/ QuicStep([quicMsg EXCEPT !.s = "DIALED", !.established = TRUE])
       \/ QuicStep([quicMsg EXCEPT !.s = "RETURNED", !.sErr = "dial"])

(* stream, err := conn.OpenStreamSync(ctx): nothing is sent yet. *)
QOpenStream ==
    /\ quicMsg.s = "DIALED"
    /\ QuicStep([quicMsg EXCEPT !.s = "STREAM"])

(* stream.Write([]byte(message)): the bytes are buffered; Write returns. *)
QWrite ==
    /\ quicMsg.s = "STREAM"
    /\ QuicStep([quicMsg EXCEPT !.s = "WRITTEN",
                                !.buffered = (quicMsg.msg # <<>>)])

(* return nil, and the deferred conn.CloseWithError(0, ""). *)
QReturn ==
    /\ quicMsg.s = "WRITTEN"
    /\ QuicStep([quicMsg EXCEPT !.s = "RETURNED", !.closeSent = TRUE,
                                !.buffered = FALSE])

(* The transport's send loop puts the buffered stream data in a packet. *)
QSendData ==
    /\ quicMsg.buffered
    /\ ~quicMsg.closeSent
    /\ QuicStep([quicMsg EXCEPT !.buffered = FALSE, !.dataSent = TRUE])

(* The packet with the stream data reaches the receiver. *)
QDeliverData ==
    /\ quicMsg.dataSent
    /\ ~quicMsg.dataAt
    /\ QuicStep([quicMsg EXCEPT !.dataAt = TRUE])

(* The connection close reaches the receiver. *)
QDeliverClose ==
    /\ quicMsg.closeSent
    /\ ~quicMsg.closeAt
    /\ QuicStep([quicMsg EXCEPT !.closeAt = TRUE])

(* quicConn, err := listener.Accept(ctx) *)
QAcceptConn ==
    /\ quicMsg.r = "LISTENING"
    /\ quicMsg.established
    /\ \/ QuicStep([quicMsg EXCEPT !.r = "CONN"])
       \/ /\ quicMsg.closeAt
          /\ QuicStep([quicMsg EXCEPT !.r = "FAILED",
                                      !.rErr = "failed to accept QUIC connection"])

(* stream, err := quicConn.AcceptStream(ctx): the stream exists for the    *)
(* receiver once its first data has arrived; on a closed connection the    *)
(* call returns the close error.                                           *)
QAcceptStream ==
    /\ quicMsg.r = "CONN"
    /\ IF quicMsg.closeAt
       THEN QuicStep([quicMsg EXCEPT !.r = "FAILED",
                                     !.rErr = "failed to accept stream"])
       ELSE /\ quicMsg.dataAt
            /\ QuicStep([quicMsg EXCEPT !.r = "STREAM"])

(* n, err := stream.Read(buffer); return nil unless err is not io.EOF. *)
QRead ==
    /\ quicMsg.r = "STREAM"
    /\ \/ QuicStep([quicMsg EXCEPT !.r = "DONE", !.read = quicMsg.msg])
       \/ /\ quicMsg.closeAt
          /\ QuicStep([quicMsg EXCEPT !.r = "FAILED",
                                      !.rErr = "failed to read message"])

NextQuic ==
    \/ QDial
    \/ QOpenStream
    \/ QWrite
    \/ QReturn
    \/ QSendData
    \/ QDeliverData
    \/ QDeliverClose
    \/ QAcceptConn
    \/ QAcceptStream
    \/ QRead

SpecQuic == InitQuic /\ [][NextQuic]_vars

(* ------------------------ legacy (v1) transfer ------------------------- *)

(* Variant: the sender does not seek and streams the file from its start. *)
SendRangeFromStart(src, offset) == src

(* file.Seek(response.Offset) when the offset is positive, then            *)
(* io.Copy(writer, file): the bytes from the offset to the end of file.    *)
SendRange(src, offset) == SubSeq(src, offset + 1, Len(src))

(* bytesToReceive := metadata.FileSize - offset; io.CopyN copies that      *)
(* many bytes and nothing when the number is zero or negative.             *)
BytesToReceive(fileSize, offset) == fileSize - offset

LegacySessionStart(src, exists, file, n) ==
    [stage |-> "legacy", src |-> src, exists |-> exists, file |-> file,
     session |-> n, s |-> "CONNECTED", r |-> "ACCEPTED",
     startExists |-> exists, startFile |-> file,
     metaWire |-> <<>>, respWire |-> <<>>, wire |-> <<>>, sent |-> <<>>,
     meta |-> [filesize |-> 0, filehash |-> Digest(<<>>)], offset |-> 0,
     copied |-> 0, broken |-> FALSE, reply |-> "none",
     prevStart |-> 0, prevCopied |-> -1]

InitLegacy ==
    /\ \E n \in 0..MaxFileSize, exists \in BOOLEAN :
         \E file \in (IF exists
                      THEN UNION {FilesOfSize(k, SourceOfSize(n)) :
                                     k \in 0..(MaxFileSize + 1)}
                      ELSE {<<>>}) :
            legacy = LegacySessionStart(SourceOfSize(n), exists, file, 1)
    /\ pool = NoPool
    /\ quicMsg = NoQuicMsg
    /\ trust = NoTrust
    /\ plan = NoPlan
    /\ codec = NoCodec
    /\ source = <<>>
    /\ chunkSize = 1
    /\ diskExists = FALSE
    /\ disk = <<>>
    /\ session = 1
    /\ prev = NoPrev
    /\ SessionStart

LegacyStep(next) ==
    /\ legacy.stage = "legacy"
    /\ legacy' = next
    /\ UNCHANGED <<chunkedVars, pool, quicMsg, trust>>

(* SendFile: hash the file, connect, write the metadata line. *)
LSendMetadata ==
    /\ legacy.s = "CONNECTED"
    /\ ~legacy.broken
    /\ LegacyStep([legacy EXCEPT
          !.s = "WAIT_RESPONSE",
          !.metaWire = <<[filesize |-> Len(legacy.src),
                          filehash |-> Digest(legacy.src)]>>])

(* ReceiveFile: read the metadata line, take the size of the file of that  *)
(* name as the offset (0 without one), write the response, open the file   *)
(* with O_CREATE|O_APPEND|O_WRONLY.                                        *)
LReceiveMetadata ==
    /\ legacy.r = "ACCEPTED"
    /\ legacy.metaWire # <<>>
    /\ LegacyStep([legacy EXCEPT
          !.r = "RECEIVING",
          !.meta = legacy.metaWire[1],
          !.offset = IF legacy.exists THEN Len(legacy.file) ELSE 0,
          !.respWire = <<IF legacy.exists THEN Len(legacy.file) ELSE 0>>,
          !.exists = TRUE])

(* SendFile: read the response, seek, io.Copy, Flush. *)
LSendData ==
    /\ legacy.s = "WAIT_RESPONSE"
    /\ legacy.respWire # <<>>
    /\ ~legacy.broken
    /\ LegacyStep([legacy EXCEPT
          !.s = "WAIT_STATUS",
          !.sent = SendRange(legacy.src, legacy.respWire[1]),
          !.wire = SendRange(legacy.src, legacy.respWire[1])])

(* io.CopyN: one more byte from the connection is appended to the file. *)
LReceiveByte ==
    /\ legacy.r = "RECEIVING"
    /\ legacy.copied < BytesToReceive(legacy.meta.filesize, legacy.offset)
    /\ legacy.wire # <<>>
    /\ LegacyStep([legacy EXCEPT
          !.file = Append(legacy.file, Head(legacy.wire)),
          !.wire = Tail(legacy.wire),
          !.copied = legacy.copied + 1])

(* io.CopyN has returned without error: hash the file, write ACK or        *)
(* ERR_CHECKSUM.                                                           *)
LVerify ==
    /\ legacy.r = "RECEIVING"
    /\ legacy.copied >= BytesToReceive(legacy.meta.filesize, legacy.offset)
    /\ LegacyStep([legacy EXCEPT
          !.r = "DONE",
          !.reply = IF Digest(legacy.file) = legacy.meta.filehash
                    THEN "ACK" ELSE "ERR_CHECKSUM"])

(* The connection breaks; what was not yet delivered is lost. *)
LBreak ==
    /\ ~legacy.broken
    /\ legacy.r # "DONE"
    /\ legacy.r # "ERROR"
    /\ LegacyStep([legacy EXCEPT !.broken = TRUE, !.wire = <<>>,
                                 !.metaWire = <<>>, !.respWire = <<>>])

(* ReceiveFile returns on a read error (metadata or file data) with no     *)
(* reply; the file keeps what was appended.                                *)
LReceiverError ==
    /\ legacy.broken
    /\ \/ legacy.r = "ACCEPTED" /\ legacy.metaWire = <<>>
       \/ /\ legacy.r = "RECEIVING"
          /\ legacy.copied < BytesToReceive(legacy.meta.filesize, legacy.offset)
    /\ LegacyStep([legacy EXCEPT !.r = "ERROR"])

(* SendFile: the final status line, or an error return. *)
LReadStatus ==
    /\ legacy.s \in {"CONNECTED", "WAIT_RESPONSE", "WAIT_STATUS"}
    /\ \/ /\ legacy.s = "WAIT_STATUS"
          /\ legacy.reply # "none"
          /\ ~legacy.broken
          /\ LegacyStep([legacy EXCEPT
                !.s = IF legacy.reply = "ACK" THEN "SUCCESS" ELSE "FAILED"])
       \/ /\ legacy.broken
          /\ LegacyStep([legacy EXCEPT !.s = "ERROR"])

(* Both ends have returned; the user runs the transfer again.  prevStart   *)
(* and prevCopied keep the length the file had when the session that just  *)
(* ended began, and the bytes that session appended before it was          *)
(* interrupted (-1: it was not).                                           *)
LNewSession ==
    /\ legacy.stage = "legacy"
    /\ legacy.s \in {"SUCCESS", "FAILED", "ERROR"}
    /\ legacy.r \in {"DONE", "ERROR"}
    /\ legacy.session < MaxSessions
    /\ LegacyStep([LegacySessionStart(legacy.src, legacy.exists, legacy.file,
                                      legacy.session + 1)
                      EXCEPT !.prevStart = Len(legacy.startFile),
                             !.prevCopied = IF legacy.r = "ERROR"
                                            THEN legacy.copied ELSE -1])

NextLegacy ==
    \/ LSendMetadata
    \/ LReceiveMetadata
    \/ LSendData
    \/ LReceiveByte
    \/ LVerify
    \/ LBreak
    \/ LReceiverError
    \/ LReadStatus
    \/ LNewSession

SpecLegacy == InitLegacy /\ [][NextLegacy]_vars

(* ----------------------------- trust store ----------------------------- *)

(* The TrustStore's sync.RWMutex and the goroutines (certificate           *)
(* verifications, CLI commands) that call the store.  Lock waits until no  *)
(* goroutine holds the mutex; RLock waits while a writer holds it or waits *)
(* for it.  The mutex does not know its holder: a goroutine that holds the *)
(* write lock and calls RLock waits like any other.                        *)
Goroutines == 1..MaxGoroutines
DeviceIDs == {"peer-a", "peer-b"}
WriteOps == {"load", "addTrustedPeer"}
ReadOps == {"getTrustedPeer", "getAllTrustedPeers"}

InitTrust ==
    /\ trust = [stage |-> "trust", writer |-> 0, readers |-> {},
                peers |-> {}, saved |-> {}, calls |-> 0,
                pc |-> [g \in Goroutines |-> "idle"],
                op |-> [g \in Goroutines |-> "none"],
                id |-> [g \in Goroutines |-> "peer-a"]]
    /\ pool = NoPool
    /\ quicMsg = NoQuicMsg
    /\ legacy = NoLegacy
    /\ plan = NoPlan
    /\ codec = NoCodec
    /\ source = <<>>
    /\ chunkSize = 1
    /\ diskExists = FALSE
    /\ disk = <<>>
    /\ session = 1
    /\ prev = NoPrev
    /\ SessionStart

TrustStep(next) ==
    /\ trust.stage = "trust"
    /\ trust' = next
    /\ UNCHANGED <<chunkedVars, pool, quicMsg, legacy>>

(* A goroutine calls load, addTrustedPeer, getTrustedPeer or               *)
(* getAllTrustedPeers: the first statement is ts.mutex.Lock() or RLock().  *)
TCall(g) ==
    /\ trust.stage = "trust"
    /\ trust.pc[g] = "idle"
    /\ trust.calls < MaxCalls
    /\ \E o \in WriteOps \cup ReadOps, d \in DeviceIDs :
         TrustStep([trust EXCEPT !.pc[g] = IF o \in WriteOps THEN "Lock"
                                           ELSE "RLock",
                                 !.op[g] = o, !.id[g] = d,
                                 !.calls = trust.calls + 1])

(* ts.mutex.Lock() returns. *)
TLock(g) ==
    /\ trust.stage = "trust"
    /\ trust.pc[g] = "Lock"
    /\ trust.writer = 0
    /\ trust.readers = {}
    /\ TrustStep([trust EXCEPT !.writer = g, !.pc[g] = "locked"])

(* Under the write lock: load reads the file; addTrustedPeer sets          *)
(* ts.peers[peer.DeviceID] = peer and calls ts.save(), whose first         *)
(* statement is ts.mutex.RLock().                                          *)
TWrite(g) ==
    /\ trust.stage = "trust"
    /\ trust.pc[g] = "locked"
    /\ IF trust.op[g] = "addTrustedPeer"
       THEN TrustStep([trust EXCEPT !.peers = trust.peers \cup {trust.id[g]},
                                    !.pc[g] = "RLock"])
       ELSE TrustStep([trust EXCEPT !.peers = trust.saved,
                                    !.pc[g] = "Unlock"])

(* ts.mutex.RLock() returns. *)
TRLock(g) ==
    /\ trust.stage = "trust"
    /\ trust.pc[g] = "RLock"
    /\ trust.writer = 0
    /\ \A h \in Goroutines : trust.pc[h] # "Lock"
    /\ TrustStep([trust EXCEPT !.readers = trust.readers \cup {g},
                               !.pc[g] = "rlocked"])

(* Under the read lock: save writes the file, the getters read the map;    *)
(* then the deferred ts.mutex.RUnlock().  save returns into                *)
(* addTrustedPeer, the getters return to their caller.                     *)
TRead(g) ==
    /\ trust.stage = "trust"
    /\ trust.pc[g] = "rlocked"
    /\ IF trust.op[g] = "addTrustedPeer"
       THEN TrustStep([trust EXCEPT !.saved = trust.peers,
                                    !.readers = trust.readers \ {g},
                                    !.pc[g] = "Unlock"])
       ELSE TrustStep([trust EXCEPT !.readers = trust.readers \ {g},
                                    !.pc[g] = "idle"])

(* The deferred ts.mutex.Unlock(); the call returns. *)
TUnlock(g) ==
    /\ trust.stage = "trust"
    /\ trust.pc[g] = "Unlock"
    /\ TrustStep([trust EXCEPT !.writer = 0, !.pc[g] = "idle"])

(* The steps of a call once it is made. *)
TProceed(g) == TLock(g) \/ TWrite(g) \/ TRLock(g) \/ TRead(g) \/ TUnlock(g)

NextTrust ==
    \/ \E g \in Goroutines : TCall(g)
    \/ \E g \in Goroutines : TLock(g)
    \/ \E g \in Goroutines : TWrite(g)
    \/ \E g \in Goroutines : TRLock(g)
    \/ \E g \in Goroutines : TRead(g)
    \/ \E g \in Goroutines : TUnlock(g)

SpecTrust == InitTrust /\ [][NextTrust]_vars

(* The scheduler runs every goroutine that can take a step. *)
FairSpecTrust == SpecTrust /\ \A g \in Goroutines : WF_vars(TProceed(g))

(* ------------------------------ claims --------------------------------- *)

CeilDiv(a, b) == IF a % b = 0 THEN a \div b ELSE (a \div b) + 1
Range(first, count) == [k \in 1..Max(0, count) |-> first + k - 1]

Terminated == SenderEnded /\ ReceiverEnded
StreamIds == 1..Len(streams)
FaultKinds == {faults[f] : f \in 1..Len(faults)}

(* C1: every accepted transfer, also one that starts from an existing      *)
(* received_<filename> of any length and content, ends with the receiver   *)
(* holding exactly filesize bytes whose digest is the request's.  Stated   *)
(* for sessions in which the transport and the disk never failed.          *)
C1_AcceptedTransferPersistsFile ==
    (Terminated /\ accepted /\ faults = <<>>) =>
        /\ rpc = "DONE"
        /\ Len(disk) = rReq.filesize
        /\ Digest(disk) = rReq.filehash

(* C2: once every chunk of the resume list was received, the receiver ends *)
(* DONE exactly if the re-hashed output file has the request's digest and  *)
(* FAILED with an integrity error otherwise; so a receiver that ended DONE *)
(* holds exactly filesize bytes with the request's digest.                 *)
C2_DoneIffDigestMatches ==
    /\ (ReceiverEnded /\ accepted /\ ri = Len(rResume)) =>
          /\ rpc = "DONE" <=> Digest(disk) = rReq.filehash
          /\ rpc # "DONE" => (rpc = "FAILED" /\ rErr = "integrity")
    /\ rpc = "DONE" =>
          /\ ri = Len(rResume)
          /\ Len(disk) = rReq.filesize
          /\ Digest(disk) = rReq.filehash
          /\ disk = source
    /\ rErr = "integrity" => (rpc = "FAILED" /\ ri = Len(rResume))

C2_Witness ==
    /\ rpc = "FAILED"
    /\ rErr = "integrity"
    /\ rcvd >= 1
    /\ Len(disk) = rReq.filesize

(* C3: a first session that started without an output file failed after    *)
(* the receiver persisted chunks 0..m-1 (m >= 1).  In the next session the *)
(* required list is m..total_chunks-1, every frame the sender transmits is *)
(* one of those chunks, the receiver writes at offsets m*chunk_size,       *)
(* (m+1)*chunk_size, ... and the session ends: both processes return, and  *)
(* when no transport or disk failure occurred the receiver holds filesize  *)
(* bytes with the request's digest.                                        *)
Resuming == prev.outcome = "FAILED" /\ prev.fresh /\ prev.rcvd >= 1

C3_ResumeInv ==
    Resuming =>
        LET m     == prev.rcvd
            total == CeilDiv(Len(source), chunkSize)
        IN  /\ rpc # "ACCEPTED" => rResume = Range(m, total - m)
            /\ spc \notin {"CONNECTED", "REQ_SENT"} =>
                   (sResume = <<>> \/ sResume = Range(m, total - m))
            /\ \A n \in StreamIds :
                 LET id == m + streams[n].pos
                 IN  /\ id >= m /\ id < total
                     /\ (streams[n].written /\ "corrupt" \notin FaultKinds) =>
                           streams[n].data =
                               SubSeq(source, id * chunkSize + 1,
                                      Min(id * chunkSize + chunkSize, Len(source)))
            /\ rWrites = [k \in 1..Len(rWrites) |-> (m + k - 1) * chunkSize]
            /\ (Terminated /\ accepted /\ faults = <<>>) =>
                   /\ rpc = "DONE"
                   /\ Len(streams) = total - m
                   /\ \A n \in StreamIds : streams[n].pos = n - 1
                   /\ Len(rWrites) = total - m
                   /\ Len(disk) = Len(source)
                   /\ Digest(disk) = Digest(source)

C3_ResumeSendsOnlyMissing ==
    /\ []C3_ResumeInv
    /\ (Resuming /\ accepted) ~> Terminated

C3_Witness ==
    /\ Resuming
    /\ Terminated
    /\ rpc = "DONE"
    /\ faults = <<>>
    /\ Len(rWrites) >= 2
    /\ rWrites[1] = prev.rcvd * chunkSize
    /\ rWrites[2] = (prev.rcvd + 1) * chunkSize

(* C4: when exactly one chunk frame arrives with a payload that fails the  *)
(* digest check, the sender retries, the retried frame verifies and the    *)
(* session completes on both sides with a matching whole-file digest.      *)
C4_CorruptFrameIsRetried ==
    (Terminated /\ accepted /\ rP = -1 /\ faults = <<"corrupt">>) =>
        /\ spc = "DONE"
        /\ rpc = "DONE"
        /\ Digest(disk) = rReq.filehash

(* C5: the index check of receiveChunkReliably (header index = expected    *)
(* index) never fails, also when an attempt is retried after its           *)
(* acknowledgement was lost or could not be written.                       *)
C5_IndexCheckNeverFails == rErr # "index"

(* C6: the sender advances to the next list position and increments its    *)
(* sent count only on reading an acknowledgement byte 1 on the stream of   *)
(* that chunk; a read error or another byte makes the attempt a failure.   *)
C6_DeliveredOnlyOnAck ==
    [][/\ (si' > si \/ sent' > sent) =>
             /\ spc = "WAIT_ACK"
             /\ streams[Cur].pos = si
             /\ streams[Cur].written
             /\ streams[Cur].ack = 1
             /\ si' = si + 1
             /\ sent' = sent + 1
       /\ (spc = "WAIT_ACK" /\ spc' # "WAIT_ACK" /\ streams[Cur].ack # 1) =>
             /\ si' = si
             /\ sent' = sent
             /\ attempt' = attempt + 1
             /\ streams'[Cur].sres = "failed"
      ]_vars

C6_Witness ==
    /\ sent >= 1
    /\ spc = "ATTEMPT"
    /\ attempt = 1
    /\ streams[Cur].sres = "failed"
    /\ streams[Cur].ack = 0
    /\ streams[Cur].pos = si

(* C7: the retry engine makes at most MaxRetries attempts per chunk,       *)
(* stops at the first successful one, and when all of them fail the        *)
(* session fails without the sender attempting a later chunk of the list.  *)
C7_BoundedRetries ==
    /\ attempt <= MaxRetries
    /\ spc \in {"OPENED", "WAIT_ACK"} => attempt < MaxRetries
    /\ \A k \in 0..Len(sResume) :
         Cardinality({n \in StreamIds : streams[n].pos = k}) <= MaxRetries
    /\ \A n \in StreamIds :
         /\ streams[n].pos <= si
         /\ streams[n].sres = "acked" =>
               /\ streams[n].pos < si
               /\ \A n2 \in StreamIds : n2 > n => streams[n2].pos > streams[n].pos
    /\ sErr = "chunk" =>
         /\ spc = "FAILED"
         /\ attempt = MaxRetries
         /\ si < Len(sResume)
         /\ sent = si
    /\ (spc = "FAILED" /\ sResume # <<>>) => sErr = "chunk"

C7_Witness ==
    /\ spc = "FAILED"
    /\ sErr = "chunk"
    /\ si >= 1
    /\ si + 1 < Len(sResume)
    /\ Cardinality({n \in StreamIds : streams[n].pos = si}) >= 2

C9_RequiredIsMissingSuffix ==
    plan.stage \in {"required", "ranges"} =>
        LET P       == IF plan.exists THEN plan.existingSize ELSE 0
            present == P \div plan.chunkSize
            total   == CeilDiv(plan.fileSize, plan.chunkSize)
        IN  plan.required = Range(present, total - present)

C9_Witness ==
    /\ plan.stage = "required"
    /\ plan.exists
    /\ plan.existingSize > plan.chunkSize
    /\ plan.existingSize % plan.chunkSize # 0
    /\ Len(plan.required) >= 2
    /\ plan.required[1] = plan.existingSize \div plan.chunkSize

(* C10: the sender's ranges [i*chunk_size, min(i*chunk_size + chunk_size,  *)
(* filesize)) for i in 0..total_chunks-1 partition [0, filesize): no gap,  *)
(* no overlap, none empty, only the last may be shorter than chunk_size.   *)
C10_RangesPartitionFile ==
    plan.stage = "ranges" =>
        LET r == plan.ranges
            n == Len(r)
        IN  /\ n = CeilDiv(plan.fileSize, plan.chunkSize)
            /\ n = 0 <=> plan.fileSize = 0
            /\ n > 0 => /\ r[1].offset = 0
                        /\ r[n].offset + r[n].length = plan.fileSize
            /\ \A k \in 1..n :
                 /\ r[k].length >= 1
                 /\ r[k].length <= plan.chunkSize
                 /\ r[k].offset = (k - 1) * plan.chunkSize
            /\ \A k \in 1..(n - 1) :
                 /\ r[k].length = plan.chunkSize
                 /\ r[k].offset + r[k].length = r[k + 1].offset

C10_Witness ==
    /\ plan.stage = "ranges"
    /\ Len(plan.ranges) >= 3
    /\ plan.ranges[Len(plan.ranges)].length < plan.chunkSize
    /\ plan.ranges[Len(plan.ranges)].length >= 1

(* C11: in every response with accepted = true that the receiver sends,    *)
(* resume_chunks is strictly ascending and every identity in it lies in    *)
(* 0 .. ceil(filesize/chunk_size) - 1.                                     *)
C11_ResumeListAscendingInRange ==
    \A k \in 1..Len(respWire) :
        LET response == DeserializeTransferResponse(respWire[k])
            list     == response.resume_chunks
            total    == CeilDiv(rReq.filesize, rReq.chunk_size)
        IN  response.accepted =>
                \A p \in 1..Len(list) :
                    /\ list[p] >= 0
                    /\ list[p] < total
                    /\ p > 1 => list[p - 1] < list[p]

C11_Witness ==
    /\ respWire # <<>>
    /\ DeserializeTransferResponse(respWire[1]).accepted
    /\ Len(DeserializeTransferResponse(respWire[1]).resume_chunks) >= 2
    /\ DeserializeTransferResponse(respWire[1]).resume_chunks[1] >= 1

(* C12: every response with accepted = false has an empty resume_chunks    *)
(* list and a non-empty rejection reason: the planner's list is put on the *)
(* wire only when the transfer is accepted.                                *)
C12_RejectionCarriesNoList ==
    \A k \in 1..Len(respWire) :
        LET response == DeserializeTransferResponse(respWire[k])
        IN  ~response.accepted =>
                /\ "resume_chunks" \notin DOMAIN respWire[k]
                /\ response.resume_chunks = <<>>
                /\ response.rejection_msg # <<>>

(* C13: a rejected transfer is a normal outcome: with accepted = false in  *)
(* the response neither SendFileChunked nor ReceiveFileChunked ends with   *)
(* an error, and the sender opens no data stream.                          *)
C13_RejectionIsNotAnError ==
    (respWire # <<>> /\ ~DeserializeTransferResponse(respWire[1]).accepted) =>
        /\ rErr = "none"
        /\ sErr = "none"
        /\ rpc # "FAILED"
        /\ spc # "FAILED"
        /\ streams = <<>>

(* C14: a receiver that rejects leaves its files alone: no output file is  *)
(* created, and an existing one is neither written nor truncated.          *)
C14_RejectionLeavesFilesAlone ==
    /\ [](rpc = "REJECTED" => (~accepted /\ rWrites = <<>> /\ rcvd = 0))
    /\ [][(~accepted') => UNCHANGED diskVars]_vars

C14_Witness ==
    /\ rpc = "REJECTED"
    /\ spc = "REJECTED"
    /\ ~diskExists
    /\ disk = <<>>

(* C15: during RECEIVING any failure on a data stream (accept failure,     *)
(* short read, index mismatch, digest mismatch, positional-write error)    *)
(* makes the receiver end FAILED in that step; afterwards it accepts no    *)
(* stream and writes nothing in that session, and it never goes back to a  *)
(* chunk.                                                                  *)
StreamFailures == {"accept", "read", "index", "checksum", "write"}

BadFrame(s) ==
    \/ ~ConnOpen
    \/ ~s.written
    \/ s.idx # ri
    \/ Digest(s.data) # s.sum

C15_StreamFailureEndsSession ==
    /\ [](rErr \in StreamFailures => rpc = "FAILED")
    /\ [][/\ (rpc = "FAILED" /\ session' = session) =>
                 UNCHANGED <<receiverVars, diskVars>>
          /\ (Len(faults') > Len(faults)
                /\ faults'[Len(faults')] \in {"accept", "diskwrite"}) =>
                 /\ rpc' = "FAILED"
                 /\ rErr' \in {"accept", "write"}
                 /\ UNCHANGED <<diskExists, rWrites, rcvd, ri, nAccepted>>
                 /\ faults'[Len(faults')] = "accept" => disk' = disk
          /\ (rpc = "READ_CHUNK" /\ rpc' # rpc /\ BadFrame(streams[nAccepted])) =>
                 /\ rpc' = "FAILED"
                 /\ rErr' \in {"read", "index", "checksum"}
                 /\ streams'[nAccepted].ack = -1
                 /\ UNCHANGED <<diskVars, rWrites, rcvd, ri, nAccepted>>
          /\ session' = session => (ri' >= ri /\ nAccepted' >= nAccepted)
         ]_vars

C15_Witness ==
    /\ rpc = "FAILED"
    /\ rErr = "checksum"
    /\ rcvd >= 1
    /\ ri < Len(rResume)
    /\ SenderEnded

(* C16: on every failure path of a receiving session the output file stays *)
(* on disk with every chunk written so far: the receiver never deletes or  *)
(* truncates it.                                                           *)
C16_FailureKeepsPartialFile ==
    /\ []((rpc = "FAILED") => diskExists)
    /\ [](\A k \in 1..Len(rWrites) :
             LET id == rWrites[k] \div chunkSize
             IN  SubSeq(disk, rWrites[k] + 1,
                        rWrites[k] + ChunkRemaining(id, chunkSize, Len(source)))
                 = ReadChunk(source, rWrites[k],
                             ChunkRemaining(id, chunkSize, Len(source))))
    /\ [][/\ diskExists => (diskExists' /\ Len(disk') >= Len(disk))
          /\ (rpc' = "FAILED" /\ rpc # "FAILED") =>
                 /\ diskExists' = diskExists
                 /\ rErr' # "write" => disk' = disk
         ]_vars

C16_Witness ==
    /\ rpc = "FAILED"
    /\ rErr = "integrity"
    /\ Len(rWrites) >= 1
    /\ diskExists
    /\ Len(disk) = Len(source)
    /\ disk # source

(* C17: the receiver never acknowledges with 1, and so never hands on for  *)
(* writing, a frame whose payload length differs from the planned length   *)
(* of the chunk at that list position (chunk_size, or the shorter length   *)
(* of the last chunk).                                                     *)
C17_LengthMismatchNeverAccepted ==
    (/\ codec.stage = "received"
     /\ codec.index < CeilDiv(codec.fileSize, codec.chunkSize)
     /\ codec.result.ack = 1) =>
        Len(codec.result.chunk.data) =
            Min(codec.chunkSize,
                codec.fileSize - codec.index * codec.chunkSize)

(* C18: receiving the frame the send routine produced for (i, D) with      *)
(* expected identity i yields (i, D) and the acknowledgement 1 exactly     *)
(* when the digest in the header is the digest of the payload; a frame     *)
(* whose payload or digest was altered is never returned.                  *)
C18_FrameRoundTrip ==
    codec.stage = "received" =>
        LET r  == codec.result
            fr == codec.frame
        IN  /\ (/\ r.err = "none"
                /\ r.ack = 1
                /\ r.chunk.index = codec.index
                /\ r.chunk.data = fr.data) <=> (fr.sum = Digest(fr.data))
            /\ codec.altered => (r.err # "none" /\ r.ack # 1)

(* C19: for every identity v, also v > 2^32, the value the receiver        *)
(* decodes from the header is the value the sender passed to the send      *)
(* routine (no truncation modulo 2^32).                                    *)
C19_IdentityNotTruncated ==
    codec.stage \in {"framed", "received"} => codec.frame.idx = codec.index

(* C20: deserializing the serialized transfer request or response yields   *)
(* the original values field for field, the resume list in the same order. *)
C20_MessageRoundTrip ==
    codec.stage = "decoded" => codec.decoded = codec.msg

(* C21: for a source of length 0 and no earlier output file the plan has   *)
(* no chunk, the resume list is empty, no data stream is opened or         *)
(* accepted, the digest compared is that of the empty byte sequence, and   *)
(* the session ends successfully on both sides.                            *)
C21_EmptyFileCompletes ==
    (accepted /\ rReq.filesize = 0 /\ rP = -1 /\ faults = <<>>) =>
        /\ TotalChunks(rReq.filesize, rReq.chunk_size) = 0
        /\ rResume = <<>>
        /\ streams = <<>>
        /\ nAccepted = 0
        /\ rReq.filehash = Digest(<<>>)
        /\ ReceiverEnded => (rpc = "DONE" /\ disk = <<>> /\ diskExists)
        /\ SenderEnded => spc = "DONE"

(* C22 as stated: when the output file already has filesize bytes the      *)
(* required list is empty, the sender sends no chunk, and the receiver     *)
(* still runs the whole-file verification, whose result alone decides      *)
(* between DONE and FAILED.                                                *)
C22_FullLengthNeedsNothing ==
    (accepted /\ rP = rReq.filesize) =>
        /\ rResume = <<>>
        /\ streams = <<>>
        /\ sent = 0
        /\ ReceiverEnded =>
              /\ rpc = "DONE" <=> Digest(disk) = rReq.filehash
              /\ rpc = "FAILED" => rErr = "integrity"

(* C22 amended: when the output file already has filesize bytes the        *)
(* required list is empty if filesize is a multiple of chunk_size and      *)
(* otherwise holds exactly the last, partial chunk, which is sent again;   *)
(* with an empty list no stream is opened and nothing is written, and in   *)
(* either case a receiver that got through its list ends DONE or FAILED    *)
(* by the whole-file verification alone.                                   *)
C22_FullLengthNeedsAtMostTail ==
    (accepted /\ rP = rReq.filesize) =>
        LET total == TotalChunks(rReq.filesize, rReq.chunk_size)
            tail  == rReq.filesize % rReq.chunk_size # 0
        IN  /\ rResume = (IF tail THEN <<total - 1>> ELSE <<>>)
            /\ ~tail => (streams = <<>> /\ sent = 0 /\ rWrites = <<>>)
            /\ \A n \in StreamIds : streams[n].pos = 0
            /\ (ReceiverEnded /\ ri = Len(rResume)) =>
                  /\ rpc = "DONE" <=> Digest(disk) = rReq.filehash
                  /\ rpc = "FAILED" => rErr = "integrity"
            /\ (ReceiverEnded /\ ~tail) => ri = Len(rResume)

C22_Witness ==
    /\ accepted
    /\ rP = rReq.filesize
    /\ rReq.filesize > 0
    /\ rReq.filesize % rReq.chunk_size = 0
    /\ streams = <<>>
    /\ rpc = "FAILED"
    /\ rErr = "integrity"
    /\ SenderEnded

C24_AckAfterWrite ==
    \A n \in StreamIds :
        streams[n].sres = "acked" => Len(rWrites) > streams[n].pos

(* C25: every response the receiver wrote on the control stream is decoded *)
(* by the sender before the sender sees the connection closed; a receiver  *)
(* that rejects, waits and closes never makes the sender end FAILED in     *)
(* place of REJECTED.                                                      *)
C25_ResponseReadBeforeClose ==
    (respWire # <<>> /\ SenderEnded) =>
        /\ sErr # "response"
        /\ ~accepted => spc = "REJECTED"

(* C26: once the sender has read the acknowledgement of the last chunk,    *)
(* its closing of the connection cannot make the receiver fail: in every   *)
(* interleaving the receiver still does its last write and the whole-file  *)
(* verification, and only a failed disk write or the verification itself   *)
(* can make it end FAILED.                                                 *)
LastAckRead ==
    /\ spc \in {"SENDING", "DONE"}
    /\ sResume # <<>>
    /\ si = Len(sResume)

C26_CloseAfterLastAckIsHarmless ==
    /\ [](LastAckRead =>
             /\ rpc \in {"WRITE_CHUNK", "RECEIVING", "DONE", "FAILED"}
             /\ ri >= Len(rResume) - 1
             /\ rErr \in {"none", "write", "integrity"}
             /\ nAccepted = Len(streams))
    /\ []((LastAckRead /\ ReceiverEnded /\ rErr # "write") =>
             /\ ri = Len(rResume)
             /\ rcvd = Len(rResume)
             /\ rpc = "DONE" <=> Digest(disk) = rReq.filehash)
    /\ [][(LastAckRead /\ LastAckRead' /\ rpc = "WRITE_CHUNK" /\ rpc' # rpc
              /\ connClosedBy = "sender" /\ "diskwrite" \notin FaultKinds') =>
                 (rpc' = "RECEIVING" /\ rcvd' = rcvd + 1)]_vars
    /\ [](LastAckRead => <>(ReceiverEnded /\ ri >= Len(rResume) - 1))

C26_Witness ==
    /\ LastAckRead
    /\ spc = "DONE"
    /\ connClosedBy = "sender"
    /\ rpc = "WRITE_CHUNK"
    /\ Len(rWrites) >= 1

C28_SenderOrder ==
    /\ [](streams # <<>> =>
             /\ reqWire # <<>>
             /\ respWire # <<>>
             /\ DeserializeTransferResponse(respWire[1]).accepted
             /\ spc \notin {"CONNECTED", "REQ_SENT", "REJECTED"})
    /\ [](\A n \in StreamIds :
             /\ streams[n].pos < Len(sResume)
             /\ streams[n].pos <= si
             /\ \A m \in StreamIds : m < n =>
                   /\ streams[m].pos <= streams[n].pos
                   /\ ~streams[m].sOpen
             /\ \A k \in 0..(streams[n].pos - 1) :
                   \E m \in 1..(n - 1) :
                      streams[m].pos = k /\ streams[m].sres = "acked")
    /\ [](spc = "DONE" =>
             /\ si = Len(sResume)
             /\ sent = Len(sResume)
             /\ \A k \in 0..(Len(sResume) - 1) :
                   \E n \in StreamIds :
                      streams[n].pos = k /\ streams[n].sres = "acked")
    /\ [][session' = session => si' \in {si, si + 1}]_vars

C28_Witness ==
    /\ spc = "DONE"
    /\ Len(sResume) >= 2
    /\ sResume[1] > 0
    /\ "open" \in FaultKinds

(* C29: the receiver computes the required list once in a session, from    *)
(* the length of the file on disk when it answers; the list it works       *)
(* through while RECEIVING is the list it sent, whatever the length of the *)
(* file has become in the meantime.                                        *)
C29_ListComputedOnce ==
    /\ [](rpc # "ACCEPTED" =>
             /\ rResume = getRequiredChunks(rP # -1, Max(rP, 0), rReq.filesize,
                                            rReq.chunk_size)
             /\ DeserializeTransferResponse(respWire[1]).resume_chunks = rResume)
    /\ [][/\ (rpc # "ACCEPTED" /\ session' = session) =>
                 (rResume' = rResume /\ rP' = rP /\ respWire' = respWire)
          /\ (rpc = "WRITE_CHUNK" /\ rpc' = "RECEIVING") =>
                 /\ rWrites' = Append(rWrites, rResume[ri + 1] * rReq.chunk_size)
                 /\ ri' = ri + 1
         ]_vars
    /\ [](Len(rWrites) <= Len(rResume)
             /\ \A k \in 1..Len(rWrites) :
                   rWrites[k] = rResume[k] * rReq.chunk_size)

C29_Witness ==
    /\ rpc = "RECEIVING"
    /\ Len(rWrites) >= 1
    /\ ri < Len(rResume)
    /\ getRequiredChunks(diskExists, Len(disk), rReq.filesize, rReq.chunk_size)
           # rResume

(* C30: however the bytes of a control message fall into read segments,   *)
(* the reader tries a parse after each segment it appended, stops at the   *)
(* first segment after which the bytes read so far parse, and decodes the  *)
(* message it decodes when all bytes come in one segment; when the stream  *)
(* ends before a parse succeeded the session fails with a decoding error.  *)
RECURSIVE Appended(_, _)
Appended(reads, k) ==
    IF k = 0 THEN <<>> ELSE Appended(reads, k - 1) \o reads[k].data

Clean(reads, k) == \A j \in 1..k : reads[j].err = "none"

C30_IncrementalParse ==
    codec.stage = "read" =>
        LET r    == codec.reads
            res  == codec.result
            want == IF codec.msg.type = MessageTransferRequest
                    THEN DeserializeTransferRequest(codec.wire)
                    ELSE DeserializeTransferResponse(codec.wire)
        IN  /\ want # DecodeError
            /\ \A k \in 1..Len(r) :
                   /\ (Clean(r, k) /\ Appended(r, k) = codec.text) =>
                          (res.err = "none" /\ res.msg = want /\ res.used = k)
                   /\ (Clean(r, k) /\ Appended(r, k) # codec.text) =>
                          res.used > k
                   /\ (/\ Clean(r, k - 1)
                       /\ Appended(r, k - 1) # codec.text
                       /\ r[k].err = "EOF") =>
                          (res.err = "deserialize" /\ res.used = k)
                   /\ (/\ Clean(r, k - 1)
                       /\ Appended(r, k - 1) # codec.text
                       /\ r[k].err = "closed") =>
                          (res.err = "read" /\ res.used = k)

C30_Witness ==
    /\ codec.stage = "read"
    /\ Len(codec.reads) = 3
    /\ Clean(codec.reads, 3)
    /\ codec.result.err = "none"
    /\ codec.result.used = 3
    /\ codec.result.msg = codec.msg
    /\ codec.msg.type = MessageTransferResponse
    /\ Len(codec.msg.resume_chunks) >= 2

(* C31: a control decoder fails whenever the discriminator of the document  *)
(* differs from the one it expects: DeserializeTransferRequest returns a    *)
(* message only for TRANSFER_REQUEST, DeserializeTransferResponse only for  *)
(* TRANSFER_RESPONSE, so a message of one kind is never decoded as the      *)
(* other.                                                                   *)
C31_DiscriminatorMustMatch ==
    /\ codec.stage = "decoded-as" =>
          /\ Field(codec.wire, "type", "") # codec.kind =>
                codec.decoded = DecodeError
          /\ codec.decoded # DecodeError =>
                /\ codec.decoded.type = codec.kind
                /\ codec.wire.type = codec.kind
                /\ codec.msg.type # codec.kind =>
                      codec.wire.type # codec.msg.type
    /\ (codec.stage = "decoded" /\ codec.decoded # DecodeError) =>
          codec.decoded.type = codec.msg.type

(* A request as it came from SerializeMessage was given to the response     *)
(* decoder, and a response to the request decoder: both failed.             *)
C31_Witness ==
    /\ codec.stage = "decoded-as"
    /\ codec.wire = SerializeMessage(codec.msg)
    /\ codec.kind # codec.msg.type
    /\ codec.decoded = DecodeError

(* The line read holds yes or y in either case between white space only.    *)
SaysYes(line) ==
    \E a \in 0..Len(line), b \in 0..Len(line) :
        /\ a <= b
        /\ \A k \in 1..a : line[k] \in WhiteSpace
        /\ \A k \in (b + 1)..Len(line) : line[k] \in WhiteSpace
        /\ \/ /\ b = a + 3
              /\ line[a + 1] \in {"y", "Y"}
              /\ line[a + 2] \in {"e", "E"}
              /\ line[a + 3] \in {"s", "S"}
           \/ /\ b = a + 1
              /\ line[a + 1] \in {"y", "Y"}

(* C32: the confirmation step accepts exactly when the test-mode flag is    *)
(* set, or a line was read whose trimmed, lower-cased text is yes or y; in  *)
(* every other case, an invalid answer and a failed read among them, it     *)
(* rejects with a non-empty reason; an acceptance carries no reason.        *)
C32_ConfirmationAccepts ==
    codec.stage = "prompted" =>
        LET ended == \E k \in 1..Len(codec.stdin) : codec.stdin[k] = NewLine
            first == CHOOSE k \in 1..Len(codec.stdin) : 
                        /\ codec.stdin[k] = NewLine
                        /\ \A j \in 1..(k - 1) : codec.stdin[j] # NewLine
        IN  /\ codec.result[1] <=>
                  \/ codec.testMode
                  \/ ended /\ SaysYes(SubSeq(codec.stdin, 1, first))
            /\ ~codec.result[1] => codec.result[2] # <<>>
            /\ codec.result[1] => codec.result[2] = <<>>

(* Without test mode an answer in upper case after a blank was accepted.    *)
C32_Witness ==
    /\ codec.stage = "prompted"
    /\ ~codec.testMode
    /\ codec.result[1]
    /\ codec.stdin[1] = " "
    /\ \E k \in 1..Len(codec.stdin) : codec.stdin[k] = "Y"

(* C33: a request with chunk_size 0 makes the planner fail: the receiving   *)
(* routine returns an error, and no chunk list is computed or sent.         *)
C33_ZeroChunkSizeIsAnError ==
    (codec.stage = "answered" /\ codec.request.chunk_size = 0) =>
        /\ codec.outcome.returned
        /\ codec.outcome.err # "none"
        /\ ~codec.outcome.panic
        /\ ~codec.outcome.sent

(* C34: for every sequence of Get and Put on a BufferPool, every buffer     *)
(* Get returned has the pool's buffer size as its length, and Put leaves    *)
(* no entry of another length in the pool.                                  *)
C34_BuffersKeepLength ==
    pool.stage = "pool" =>
        /\ \A k \in 1..Len(pool.held) : pool.held[k].len = pool.size
        /\ \A k \in 1..Len(pool.entries) : pool.entries[k].len = pool.size

(* C35: when SendQUICMessage has returned without error and                 *)
(* ReceiveQUICMessage has returned, it returned without error and has read  *)
(* the message, however the sender's close and the receiver's accept and    *)
(* read interleave.                                                         *)
C35_MessageArrives ==
    (/\ quicMsg.stage = "quic"
     /\ quicMsg.s = "RETURNED"
     /\ quicMsg.sErr = "none"
     /\ quicMsg.r \in {"DONE", "FAILED"}) =>
        /\ quicMsg.r = "DONE"
        /\ quicMsg.rErr = "none"
        /\ quicMsg.read = quicMsg.msg

(* C36: legacy resume.  The receiver's offset is the size of the file it    *)
(* held when the session began (0 without one); the sender sends the source *)
(* bytes from that offset to the end and nothing else; the file is at every *)
(* point what it was plus the first bytes of that range, all of them once   *)
(* the receiver is done; a session after an interrupted one begins where    *)
(* that one stopped; and the reply is ACK exactly when the file then equals *)
(* the source, ERR_CHECKSUM otherwise, with no reply before.                *)
C36_LegacyResume ==
    legacy.stage = "legacy" =>
        LET src       == legacy.src
            startSize == IF legacy.startExists THEN Len(legacy.startFile) ELSE 0
            range     == [k \in 1..Max(0, Len(src) - startSize) |->
                             src[startSize + k]]
        IN  /\ legacy.r \in {"RECEIVING", "DONE"} => legacy.offset = startSize
            /\ legacy.s \in {"WAIT_STATUS", "SUCCESS", "FAILED"} =>
                  legacy.sent = range
            /\ legacy.copied <= Len(range)
            /\ legacy.file = legacy.startFile \o SubSeq(range, 1, legacy.copied)
            /\ legacy.prevCopied >= 0 =>
                  startSize = legacy.prevStart + legacy.prevCopied
            /\ legacy.r = "DONE" =>
                  /\ legacy.copied = Len(range)
                  /\ legacy.reply \in {"ACK", "ERR_CHECKSUM"}
                  /\ legacy.reply = "ACK" <=> legacy.file = src
            /\ legacy.r # "DONE" => legacy.reply = "none"
            /\ legacy.s = "SUCCESS" => legacy.file = src

(* A transfer interrupted after some bytes was run again, began at the      *)
(* byte where it had stopped and ended with ACK.                            *)
C36_Witness ==
    /\ legacy.stage = "legacy"
    /\ legacy.session >= 2
    /\ legacy.prevStart = 0
    /\ legacy.prevCopied >= 1
    /\ legacy.offset = legacy.prevCopied
    /\ legacy.copied >= 1
    /\ legacy.r = "DONE"
    /\ legacy.reply = "ACK"
    /\ legacy.s = "SUCCESS"

(* C37: every call of addTrustedPeer returns: the goroutine that entered it *)
(* gets back to its caller, and so does every other call on the store.      *)
C37_AddTrustedPeerReturns ==
    \A g \in Goroutines :
        (trust.stage = "trust" /\ trust.pc[g] # "idle") ~>
            (trust.stage = "trust" /\ trust.pc[g] = "idle")

(* C38: in every terminated session the sender ends DONE exactly when the   *)
(* receiver ends DONE.                                                      *)
C38_OutcomesAgree ==
    Terminated => (spc = "DONE" <=> rpc = "DONE")

(* The bytes the planner counted as present: floor(P / chunk_size) whole    *)
(* chunks of the file of length P it looked at (none when there was none).  *)
PresentBytes(p, chunkSz) == (Max(p, 0) \div chunkSz) * chunkSz

(* The receiving session has answered and found no output file.            *)
FreshSession == rpc # "ACCEPTED" /\ rP = -1

(* The file holds the first Len(disk) bytes of the source.                  *)
SourcePrefix == Len(disk) <= Len(source) /\ disk = SubSeq(source, 1, Len(disk))

(* C39 as stated: in a session that found no output file, the file is at    *)
(* every point a prefix of the source whose length is a whole number of     *)
(* chunks, or filesize.                                                     *)
C39_WholeChunkPrefix ==
    (FreshSession /\ diskExists) =>
        /\ SourcePrefix
        /\ Len(disk) % rReq.chunk_size = 0 \/ Len(disk) = rReq.filesize

(* C39 amended: in a session that found no output file, the file is at      *)
(* every point a prefix of the source; its length is that of the chunks     *)
(* written so far (whole chunks, the last one ending at filesize) unless    *)
(* the session failed in a write, and then it is longer by less than the    *)
(* chunk of the failed write.                                               *)
C39_SourcePrefixAfterWrites ==
    (FreshSession /\ diskExists) =>
        LET whole == Min(Len(rWrites) * rReq.chunk_size, rReq.filesize)
        IN  /\ SourcePrefix
            /\ rErr # "write" => Len(disk) = whole
            /\ rErr = "write" =>
                  /\ Len(disk) >= whole
                  /\ Len(disk) < Min(whole + rReq.chunk_size, rReq.filesize)
                  /\ PresentBytes(Len(disk), rReq.chunk_size) = whole

(* A session that found no file failed in a write that left part of a chunk. *)
C39_Witness ==
    /\ FreshSession
    /\ rpc = "FAILED"
    /\ rErr = "write"
    /\ Len(disk) % rReq.chunk_size # 0
    /\ Len(disk) < rReq.filesize

(* C40: a receiving session never modifies the bytes the planner counted    *)
(* as present: once the response is computed no step changes a byte below   *)
(* floor(P / chunk_size) * chunk_size, every write of the session is at an  *)
(* offset at or above that bound, the k-th write is the one of the k-th     *)
(* list position (so each position is written at most once), and no step    *)
(* makes the file shorter.                                                  *)
C40_PresentBytesUntouched ==
    [][/\ Len(disk') >= Len(disk)
       /\ rpc # "ACCEPTED" =>
             \A b \in 1..Min(PresentBytes(rP, rReq.chunk_size), Len(disk)) :
                disk'[b] = disk[b]
       /\ Len(rWrites') <= Len(rResume')
       /\ \A w \in 1..Len(rWrites') :
             /\ rWrites'[w] >= PresentBytes(rP', rReq'.chunk_size)
             /\ rWrites'[w] = rResume'[w] * rReq'.chunk_size
             /\ \A v \in 1..Len(rWrites') : v # w => rWrites'[v] # rWrites'[w]
      ]_vars

(* A resumed session wrote over the partial chunk at the end of the file,   *)
(* above the whole chunks that were counted as present.                     *)
C40_Witness ==
    /\ rP > 0
    /\ PresentBytes(rP, rReq.chunk_size) > 0
    /\ rP > PresentBytes(rP, rReq.chunk_size)
    /\ rWrites # <<>>
    /\ rWrites[1] < rP

====
